---- MODULE Spec2Model ----
(***************************************************************************)
(* Model of the .NET scripting bridge of Source/Engine/Scripting/Runtime/  *)
(* DotNet.cpp: the class handle cache, the assembly class map, the         *)
(* function pointer cache, the member caches of a class, the attribute     *)
(* decoding of the wrapper constructors and the exception marshaler.       *)
(***************************************************************************)
EXTENDS Bags, Integers, Sequences, FiniteSets, TLC

(***************************************************************************)
(* Bounds of the model.                                                    *)
(***************************************************************************)
\* number of types the managed side enumerates for the assembly
MaxTypes == 2
\* number of native wrapper objects (MClass) that may be allocated
MaxObjects == 5
\* calls of GetStaticMethodPointer made per name
MaxCalls == 3
\* records the managed side returns for one GetClassMethods call
MaxMembers == 2
\* describe calls of one category issued for one class
MaxDescribeCalls == 2
\* inner exceptions below the marshaled exception
MaxInner == 2

\* GC handle slots of the managed handle table
MaxHandles == 2
\* MClass objects allocated before classes are destroyed
MaxDtorObjects == 3
\* threads calling MAssembly::GetClasses at the same time
MaxThreads == 2
\* LoadImage and LoadCorlib calls made on the assembly wrappers
MaxLoads == 3
MaxConcCalls == 3
MaxStr == 3

(***************************************************************************)
(* Program constants: System.Reflection attribute encodings.               *)
(***************************************************************************)
MTypeAttributes_VisibilityMask == 7
MTypeAttributes_NotPublic == 0
MTypeAttributes_Public == 1
MTypeAttributes_NestedPublic == 2
MTypeAttributes_NestedPrivate == 3
MTypeAttributes_NestedFamily == 4
MTypeAttributes_NestedAssembly == 5
MTypeAttributes_NestedFamANDAssem == 6
MTypeAttributes_NestedFamORAssem == 7
MTypeAttributes_SequentialLayout == 8
MTypeAttributes_ClassSemanticsMask == 32
MTypeAttributes_Interface == 32
MTypeAttributes_Abstract == 128
MTypeAttributes_Sealed == 256

MMethodAttributes_MemberAccessMask == 7
MMethodAttributes_Private == 1
MMethodAttributes_FamANDAssem == 2
MMethodAttributes_Assembly == 3
MMethodAttributes_Family == 4
MMethodAttributes_FamORAssem == 5
MMethodAttributes_Public == 6
MMethodAttributes_UnmanagedExport == 8
MMethodAttributes_Static == 16

MFieldAttributes_FieldAccessMask == 7
MFieldAttributes_Private == 1
MFieldAttributes_FamANDAssem == 2
MFieldAttributes_Assembly == 3
MFieldAttributes_Family == 4
MFieldAttributes_FamORAssem == 5
MFieldAttributes_Public == 6
MFieldAttributes_Static == 16

\* the null pointer / null handle
NULL == 0

\* sequencing of two statements: the second sees the value the first computed
Then(value, Rest(_)) == CHOOSE result \in {Rest(v) : v \in {value}} : TRUE

(***************************************************************************)
(* Bitwise and of two naturals (operator & of DECLARE_ENUM_OPERATORS).     *)
(***************************************************************************)
RECURSIVE BitAnd(_, _)
BitAnd(a, b) ==
    IF a = 0 \/ b = 0 THEN 0
    ELSE Then(a \div 2, LAMBDA a2 : Then(b \div 2, LAMBDA b2 :
            (a % 2) * (b % 2) + 2 * BitAnd(a2, b2)))

\* operator | on flags that share no bit
BitOr(a, b) == a + b - BitAnd(a, b)

(***************************************************************************)
(* Attribute decoding of the wrapper constructors.  "CRASH" is the CRASH   *)
(* macro of the default branch of the switch.                              *)
(***************************************************************************)
\* a plausible slip: NestedFamily decoded like the member table's Family
MClassVisibility_Mut(attributes) ==
    LET v == BitAnd(attributes, MTypeAttributes_VisibilityMask) IN
    CASE v = MTypeAttributes_NotPublic \/ v = MTypeAttributes_NestedPrivate -> "Private"
      [] v = MTypeAttributes_Public \/ v = MTypeAttributes_NestedPublic -> "Public"
      [] v = MTypeAttributes_NestedFamily -> "Protected"
      [] v = MTypeAttributes_NestedAssembly -> "Internal"
      [] v = MTypeAttributes_NestedFamORAssem -> "ProtectedInternal"
      [] v = MTypeAttributes_NestedFamANDAssem -> "PrivateProtected"
      [] OTHER -> "CRASH"

MClassVisibility(attributes) ==
    LET v == BitAnd(attributes, MTypeAttributes_VisibilityMask) IN
    CASE v = MTypeAttributes_NotPublic \/ v = MTypeAttributes_NestedPrivate -> "Private"
      [] v = MTypeAttributes_Public \/ v = MTypeAttributes_NestedPublic -> "Public"
      [] v = MTypeAttributes_NestedFamily \/ v = MTypeAttributes_NestedAssembly -> "Internal"
      [] v = MTypeAttributes_NestedFamORAssem -> "ProtectedInternal"
      [] v = MTypeAttributes_NestedFamANDAssem -> "PrivateProtected"
      [] OTHER -> "CRASH"

staticClassFlags == BitOr(MTypeAttributes_Abstract, MTypeAttributes_Sealed)

\* a plausible slip: the static test written with "any bit" instead of "all bits"
MClassIsStatic_Mut(attributes) == BitAnd(attributes, staticClassFlags) # 0

MClassIsStatic(attributes) == BitAnd(attributes, staticClassFlags) = staticClassFlags

MClassIsSealed(attributes) ==
    ~MClassIsStatic(attributes)
    /\ BitAnd(attributes, MTypeAttributes_Sealed) = MTypeAttributes_Sealed

MClassIsAbstract(attributes) ==
    ~MClassIsStatic(attributes)
    /\ BitAnd(attributes, MTypeAttributes_Abstract) = MTypeAttributes_Abstract

MClassIsInterface(attributes) ==
    BitAnd(attributes, MTypeAttributes_ClassSemanticsMask) = MTypeAttributes_Interface

\* a plausible slip: a default branch that falls back to Private
MMethodVisibility_Mut(attributes) ==
    LET v == BitAnd(attributes, MMethodAttributes_MemberAccessMask) IN
    CASE v = MMethodAttributes_Private -> "Private"
      [] v = MMethodAttributes_FamANDAssem -> "PrivateProtected"
      [] v = MMethodAttributes_Assembly -> "Internal"
      [] v = MMethodAttributes_Family -> "Protected"
      [] v = MMethodAttributes_FamORAssem -> "ProtectedInternal"
      [] v = MMethodAttributes_Public -> "Public"
      [] OTHER -> "Private"

MMethodVisibility(attributes) ==
    LET v == BitAnd(attributes, MMethodAttributes_MemberAccessMask) IN
    CASE v = MMethodAttributes_Private -> "Private"
      [] v = MMethodAttributes_FamANDAssem -> "PrivateProtected"
      [] v = MMethodAttributes_Assembly -> "Internal"
      [] v = MMethodAttributes_Family -> "Protected"
      [] v = MMethodAttributes_FamORAssem -> "ProtectedInternal"
      [] v = MMethodAttributes_Public -> "Public"
      [] OTHER -> "CRASH"

MMethodIsStatic(attributes) ==
    BitAnd(attributes, MMethodAttributes_Static) = MMethodAttributes_Static

MFieldVisibility(attributes) ==
    LET v == BitAnd(attributes, MFieldAttributes_FieldAccessMask) IN
    CASE v = MFieldAttributes_Private -> "Private"
      [] v = MFieldAttributes_FamANDAssem -> "PrivateProtected"
      [] v = MFieldAttributes_Assembly -> "Internal"
      [] v = MFieldAttributes_Family -> "Protected"
      [] v = MFieldAttributes_FamORAssem -> "ProtectedInternal"
      [] v = MFieldAttributes_Public -> "Public"
      [] OTHER -> "CRASH"

MFieldIsStatic(attributes) ==
    BitAnd(attributes, MFieldAttributes_Static) = MFieldAttributes_Static


(***************************************************************************)
(* State.                                                                  *)
(***************************************************************************)
VARIABLES
    \* build and process
    assertionsEnabled,  \* ENABLE_ASSERTION of the build: ASSERT(...) is compiled in
    crash,              \* "none", or the way the process ended
    \* wrapper heap and identity maps
    mclass,             \* object id -> MClass fields, NoObject or Destroyed
    nextObj,            \* next object id New<MClass> hands out
    classHandles,       \* Dictionary<void*, MClass*>: sequence of <<key, value>>
    assemblyHandles,    \* Dictionary<void*, MAssembly*>
    asmHandle,          \* MAssembly::_handle of each assembly wrapper
    asmHasCachedClasses,\* MAssembly::_hasCachedClasses
    asmClasses,         \* MAssembly::_classes: Dictionary<full name, MClass*>
    returned,           \* type handle -> objects GetOrCreateClass returned for it
                        \* since the last class destruction
    describeCalls,      \* object id -> member category -> describe calls issued
    \* member lookups
    lastCall,           \* the last member accessor call and what it returned
    \* exception marshaling
    mexc,               \* the managed exception chain: mexc[k + 1] is the inner
                        \* exception of mexc[k]
    excResult,          \* the native MException chain built from mexc[1]
    \* managed call gateway
    CachedFunctions,    \* Dictionary<String, void*>
    calls,              \* name -> GetStaticMethodPointer calls made
    lookups,            \* name -> get_function_pointer lookups made
    resolved,           \* name -> pointers handed back to the callers
    fatalLogged,        \* names a LOG(Fatal, ...) was written for
    \* inputs and result of a wrapper constructor run on its own
    ctorIn,
    ctorOut,
    \* GC handles
    gcHandles,          \* the managed handle table: slot -> state, target, weak
    reachable,          \* managed objects that are still strongly reachable
    lastCreated,        \* the handle NewWeak returned in the previous step, or NULL
    lastTarget,         \* the last GCHandle::GetTarget call and what it returned
    \* method invocation
    invokeIn,           \* the method, instance, arguments and exception slot invoked
    InvokeMethodPtr,    \* the function-local static of MMethod::Invoke
    invokeOut,          \* what MMethod::Invoke did and returned for invokeIn
    virtualOut,         \* what MMethod::InvokeVirtual did and returned for invokeIn
    \* invocation thunks
    cachedThunk,        \* method handle -> MMethod::_cachedThunk
    thunkCalls,         \* method handle -> GetThunk calls made
    thunkAnswers,       \* method handle -> the pointers the managed side resolved, in order
    thunkReturned,      \* method handle -> the pointers GetThunk returned
    \* instance sizes
    managedSize,        \* type handle -> the size NativeSizeOf (managed) reports for it
    sizeCalls,          \* type handle -> instance size calls made on its classes
    sizeQueries,        \* type handle -> the sizes NativeSizeOf reported, in order
    sizeReturned,       \* type handle -> the sizes the calls returned
    \* host backend
    hostBackend,        \* the backend the build selected: CoreCLR, Mono, Mono with an AOT module
    hostLog,            \* the LOG entries LoadEngine and InitHostfxr wrote, in order
    hostFailed,         \* the steps of InitHostfxr that failed
    hostResult,         \* what InitHostfxr returned: none, success (false), failure (true)
    openLibraries,      \* native libraries Platform::LoadLibrary opened and nobody freed
    managedCalls,       \* entry points LoadEngine and UnloadEngine called, in order
    MRootDomain,        \* TRUE when MRootDomain is not null
    shutdownDone,       \* TRUE once ShutdownHostfxr has run
    \* class destruction
    deleted,            \* the bag of member wrappers MClass destructors deleted
    \* exception destruction
    excFreed,           \* the bag of chain positions whose MException Delete has freed
    \* concurrent GetClasses callers
    threadPc,           \* thread -> where it is in MAssembly::GetClasses
    locker,             \* the thread holding MAssembly::_locker, or NULL
    loopIndex,          \* the index i of the population loop
    enumerations,       \* GetManagedClasses calls made
    synchronized,       \* threads that acquired _locker after the flag was written, or wrote it
    observed,           \* thread -> the flag and the map the call returned to it
    \* describe-call buffers
    describeBuffers,    \* the string buffers the last GetOrCreateClass call was handed and the ones it freed
    \* assembly loading
    asmIsLoaded,        \* assembly -> MAssembly::_isLoaded
    loadCalls,          \* LoadImage and LoadCorlib calls made
    lastLoad,           \* the last load call: the handle the managed side returned and the call's result
    \* attribute and event queries
    hasCachedAttributes,\* member wrapper kind -> its _hasCachedAttributes
    memberAttributes,   \* member wrapper kind -> its _attributes
    hasCachedEvents,    \* MClass::_hasCachedEvents
    classEvents,        \* MClass::_events
    lastQuery,          \* the last query made, what it returned and the managed calls it issued
    \* threads inside the gateway, the class cache and a member cache
    frame,              \* thread -> the locals and position of the call it is in
    results,            \* thread -> what its last call returned
    memberCache,        \* member category -> flag, array and describe calls of one class
    \* the Scripting test case
    testInput,          \* the type name looked up and the string passed to TestMethod
    testLocals,         \* position in the test and its locals type, object, methodResult
    testChecks,         \* the outcomes of the CHECKs made so far
    \* MClass::GetAttributes of one class
    managedAttributes,  \* the attribute objects the managed side reports for the class
    attributesCache,    \* _hasCachedAttributes, _attributes and the describe calls made
    attributesReturned, \* what the last GetAttributes call returned
    \* threads inside MMethod::GetReturnType / GetParameterType
    sigFrame,           \* thread -> the call it is in and its position
    signature,          \* _paramsCount, _hasCachedSignature, _returnType, _parameterTypes and the fetches made
    sigReturned,        \* thread -> what its last call returned
    \* the property gets of MException::MException
    exceptionProperties,\* property name -> what the exception's class has for it, and whether its getter throws
    marshalStep,        \* the next property MException::MException reads (1..3), 4 when done
    propertyGets,       \* the getter invocations issued so far
    \* MCore::LoadEngine and MCore::UnloadEngine, statement by statement
    engineBackend,      \* the host backend the build selects
    enginePc,           \* the statement of LoadEngine the caller is at, idle between calls
    engineCalls,        \* what the current LoadEngine call has done so far, in order
    engineRootDomain,   \* MRootDomain
    MDomains,           \* MDomains
    engineCounts,       \* LoadEngine calls, successful ones, managed Exit calls and ShutdownHostfxr calls made
    engineReturn,       \* what the last LoadEngine / UnloadEngine call returned
    runtimeStarted,     \* the process has a managed runtime
    \* the class queries: GetClass, GetOrCreateClass, GetBaseClass, GetElementClass, IsInstanceOfType
    typeQuery           \* the last class query: its arguments, the managed entry points it called, what it returned

processVars == <<assertionsEnabled, crash>>
classVars == <<mclass, nextObj, classHandles, assemblyHandles, asmHandle,
               asmHasCachedClasses, asmClasses, returned, describeCalls>>
memberVars == <<lastCall>>
excVars == <<mexc, excResult>>
gatewayVars == <<CachedFunctions, calls, lookups, resolved, fatalLogged>>
ctorVars == <<ctorIn, ctorOut>>
baseVars == <<processVars, classVars, gatewayVars, ctorVars, memberVars, excVars>>
gcVars == <<gcHandles, reachable, lastCreated, lastTarget>>
invokeVars == <<invokeIn, InvokeMethodPtr, invokeOut, virtualOut>>
thunkVars == <<cachedThunk, thunkCalls, thunkAnswers, thunkReturned>>
sizeVars == <<managedSize, sizeCalls, sizeQueries, sizeReturned>>
hostVars == <<hostBackend, hostLog, hostFailed, hostResult, openLibraries, managedCalls, MRootDomain, shutdownDone>>
dtorVars == <<deleted>>
excDtorVars == <<excFreed>>
raceVars == <<threadPc, locker, loopIndex, enumerations, synchronized, observed>>
buffersVars == <<describeBuffers>>
asmVars == <<asmIsLoaded, loadCalls, lastLoad>>
stubVars == <<hasCachedAttributes, memberAttributes, hasCachedEvents, classEvents, lastQuery>>
concVars == <<frame, results, memberCache>>
testVars == <<testInput, testLocals, testChecks>>
attrVars == <<managedAttributes, attributesCache, attributesReturned>>
sigVars == <<sigFrame, signature, sigReturned>>
marshalVars == <<exceptionProperties, marshalStep, propertyGets>>
engineVars == <<engineBackend, enginePc, engineCalls, engineRootDomain, MDomains, engineCounts, engineReturn, runtimeStarted>>
queryVars == <<typeQuery>>
bridgeVars == <<gcVars, invokeVars, thunkVars, sizeVars, hostVars, dtorVars, excDtorVars, raceVars, buffersVars, asmVars, stubVars, concVars, testVars, attrVars, sigVars, marshalVars, engineVars, queryVars>>
bridgesExceptGC == <<invokeVars, thunkVars, sizeVars, hostVars, dtorVars, excDtorVars, raceVars, buffersVars, asmVars, stubVars, concVars, testVars, attrVars, sigVars, marshalVars, engineVars, queryVars>>
exceptGC == <<baseVars, bridgesExceptGC>>
bridgesExceptInvoke == <<gcVars, thunkVars, sizeVars, hostVars, dtorVars, excDtorVars, raceVars, buffersVars, asmVars, stubVars, concVars, testVars, attrVars, sigVars, marshalVars, engineVars, queryVars>>
exceptInvoke == <<baseVars, bridgesExceptInvoke>>
bridgesExceptThunk == <<gcVars, invokeVars, sizeVars, hostVars, dtorVars, excDtorVars, raceVars, buffersVars, asmVars, stubVars, concVars, testVars, attrVars, sigVars, marshalVars, engineVars, queryVars>>
exceptThunk == <<baseVars, bridgesExceptThunk>>
bridgesExceptSize == <<gcVars, invokeVars, thunkVars, hostVars, dtorVars, excDtorVars, raceVars, buffersVars, asmVars, stubVars, concVars, testVars, attrVars, sigVars, marshalVars, engineVars, queryVars>>
exceptSize == <<baseVars, bridgesExceptSize>>
bridgesExceptHost == <<gcVars, invokeVars, thunkVars, sizeVars, dtorVars, excDtorVars, raceVars, buffersVars, asmVars, stubVars, concVars, testVars, attrVars, sigVars, marshalVars, engineVars, queryVars>>
exceptHost == <<baseVars, bridgesExceptHost>>
bridgesExceptDtor == <<gcVars, invokeVars, thunkVars, sizeVars, hostVars, excDtorVars, raceVars, buffersVars, asmVars, stubVars, concVars, testVars, attrVars, sigVars, marshalVars, engineVars, queryVars>>
exceptDtor == <<baseVars, bridgesExceptDtor>>
bridgesExceptExcDtor == <<gcVars, invokeVars, thunkVars, sizeVars, hostVars, dtorVars, raceVars, buffersVars, asmVars, stubVars, concVars, testVars, attrVars, sigVars, marshalVars, engineVars, queryVars>>
exceptExcDtor == <<baseVars, bridgesExceptExcDtor>>
bridgesExceptRace == <<gcVars, invokeVars, thunkVars, sizeVars, hostVars, dtorVars, excDtorVars, buffersVars, asmVars, stubVars, concVars, testVars, attrVars, sigVars, marshalVars, engineVars, queryVars>>
exceptRace == <<baseVars, bridgesExceptRace>>
bridgesExceptBuffers == <<gcVars, invokeVars, thunkVars, sizeVars, hostVars, dtorVars, excDtorVars, raceVars, asmVars, stubVars, concVars, testVars, attrVars, sigVars, marshalVars, engineVars, queryVars>>
exceptBuffers == <<baseVars, bridgesExceptBuffers>>
bridgesExceptAsm == <<gcVars, invokeVars, thunkVars, sizeVars, hostVars, dtorVars, excDtorVars, raceVars, buffersVars, stubVars, concVars, testVars, attrVars, sigVars, marshalVars, engineVars, queryVars>>
exceptAsm == <<baseVars, bridgesExceptAsm>>
bridgesExceptStub == <<gcVars, invokeVars, thunkVars, sizeVars, hostVars, dtorVars, excDtorVars, raceVars, buffersVars, asmVars, concVars, testVars, attrVars, sigVars, marshalVars, engineVars, queryVars>>
exceptStub == <<baseVars, bridgesExceptStub>>
bridgesExceptConc == <<gcVars, invokeVars, thunkVars, sizeVars, hostVars, dtorVars, excDtorVars, raceVars, buffersVars, asmVars, stubVars, testVars, attrVars, sigVars, marshalVars, engineVars, queryVars>>
exceptConc == <<baseVars, bridgesExceptConc>>
bridgesExceptTest == <<gcVars, invokeVars, thunkVars, sizeVars, hostVars, dtorVars, excDtorVars, raceVars, buffersVars, asmVars, stubVars, concVars, attrVars, sigVars, marshalVars, engineVars, queryVars>>
exceptTest == <<baseVars, bridgesExceptTest>>
bridgesExceptAttr == <<gcVars, invokeVars, thunkVars, sizeVars, hostVars, dtorVars, excDtorVars, raceVars, buffersVars, asmVars, stubVars, concVars, testVars, sigVars, marshalVars, engineVars, queryVars>>
exceptAttr == <<baseVars, bridgesExceptAttr>>
bridgesExceptSig == <<gcVars, invokeVars, thunkVars, sizeVars, hostVars, dtorVars, excDtorVars, raceVars, buffersVars, asmVars, stubVars, concVars, testVars, attrVars, marshalVars, engineVars, queryVars>>
exceptSig == <<baseVars, bridgesExceptSig>>
bridgesExceptMarshal == <<gcVars, invokeVars, thunkVars, sizeVars, hostVars, dtorVars, excDtorVars, raceVars, buffersVars, asmVars, stubVars, concVars, testVars, attrVars, sigVars, engineVars, queryVars>>
exceptMarshal == <<baseVars, bridgesExceptMarshal>>
bridgesExceptEngine == <<gcVars, invokeVars, thunkVars, sizeVars, hostVars, dtorVars, excDtorVars, raceVars, buffersVars, asmVars, stubVars, concVars, testVars, attrVars, sigVars, marshalVars, queryVars>>
exceptEngine == <<baseVars, bridgesExceptEngine>>
bridgesExceptQuery == <<gcVars, invokeVars, thunkVars, sizeVars, hostVars, dtorVars, excDtorVars, raceVars, buffersVars, asmVars, stubVars, concVars, testVars, attrVars, sigVars, marshalVars, engineVars>>
exceptQuery == <<baseVars, bridgesExceptQuery>>
vars == <<baseVars, bridgeVars>>

NoObject == [tag |-> "none"]
Destroyed == [tag |-> "destroyed"]
NoWrapper == [tag |-> "none"]
NoInput == [kind |-> "none"]

Objects == 1..MaxObjects

MemberCategories == {"methods", "fields", "properties"}

NoCall == [op |-> "none"]

\* nullptr where an MException is expected
NoException == [tag |-> "null"]

IsLive(o) == o \in Objects /\ mclass[o].tag = "MClass"

(***************************************************************************)
(* Dictionary<K, V> as the sequence of its buckets in insertion order.     *)
(* Add asserts that the key is unknown; a build without assertions adds a  *)
(* second bucket for the key, which TryGet never reaches.                  *)
(***************************************************************************)
DictHas(d, k) == \E i \in DOMAIN d : d[i][1] = k

DictFirst(d, k) == CHOOSE i \in DOMAIN d : d[i][1] = k /\ \A j \in 1..(i - 1) : d[j][1] # k

\* TryGet: the value of the first bucket of the key, NULL when there is none
DictTryGet(d, k) == IF DictHas(d, k) THEN d[DictFirst(d, k)][2] ELSE NULL

DictAdd(d, k, v) == Append(d, <<k, v>>)

DictRemove(d, k) ==
    IF DictHas(d, k)
    THEN LET i == DictFirst(d, k) IN SubSeq(d, 1, i - 1) \o SubSeq(d, i + 1, Len(d))
    ELSE d

DictKeys(d) == {d[i][1] : i \in DOMAIN d}

(***************************************************************************)
(* The managed side's answers that the MClass constructor asks for.        *)
(***************************************************************************)
TypeIsValueType(handle) == handle % 2 = 0

TypeIsEnum(handle) == FALSE

(***************************************************************************)
(* MClass::MClass on the heap h (see Heap).  The new object has id         *)
(* h.nextObj.                                                              *)
(***************************************************************************)
MClassCtor(h, parentAssembly, handle, fullname, attributes) ==
    IF h.crash # "none" THEN h
    ELSE IF assertionsEnabled /\ handle = NULL THEN [h EXCEPT !.crash = "ASSERT"]
    ELSE IF MClassVisibility(attributes) = "CRASH" THEN [h EXCEPT !.crash = "CRASH"]
    ELSE IF assertionsEnabled /\ DictHas(h.classHandles, handle)
         THEN [h EXCEPT !.crash = "ASSERT"]
    ELSE [h EXCEPT
            !.mclass = [h.mclass EXCEPT ![h.nextObj] =
                [tag |-> "MClass",
                 _handle |-> handle,
                 _fullname |-> fullname,
                 _assembly |-> parentAssembly,
                 _visibility |-> MClassVisibility(attributes),
                 _isStatic |-> MClassIsStatic(attributes),
                 _isSealed |-> MClassIsSealed(attributes),
                 _isAbstract |-> MClassIsAbstract(attributes),
                 _isInterface |-> MClassIsInterface(attributes),
                 _isValueType |-> TypeIsValueType(handle),
                 _isEnum |-> TypeIsEnum(handle),
                 _hasCachedProperties |-> FALSE, _properties |-> <<>>,
                 _hasCachedFields |-> FALSE, _fields |-> <<>>,
                 _hasCachedMethods |-> FALSE, _methods |-> <<>>,
                 _size |-> 0]],
            !.nextObj = h.nextObj + 1,
            !.classHandles = DictAdd(h.classHandles, handle, h.nextObj)]

Heap == [mclass |-> mclass, nextObj |-> nextObj, classHandles |-> classHandles,
         asmClasses |-> asmClasses, asmHasCachedClasses |-> asmHasCachedClasses,
         describeCalls |-> describeCalls, crash |-> crash]

(***************************************************************************)
(* MMethod::MMethod, MField::MField and MProperty::MProperty: the wrapper  *)
(* they build, or the tag "CRASH" when the switch takes its default.       *)
(***************************************************************************)
Crashed == [tag |-> "CRASH"]

MMethodCtor(parentClass, name, handle, paramsCount, attributes) ==
    IF MMethodVisibility(attributes) = "CRASH" THEN Crashed
    ELSE [tag |-> "MMethod",
          _handle |-> handle,
          _paramsCount |-> paramsCount,
          _parentClass |-> parentClass,
          _name |-> name,
          _visibility |-> MMethodVisibility(attributes),
          _isStatic |-> MMethodIsStatic(attributes)]

MFieldCtor(parentClass, handle, name, type, attributes) ==
    IF MFieldVisibility(attributes) = "CRASH" THEN Crashed
    ELSE [tag |-> "MField",
          _handle |-> handle,
          _type |-> type,
          _parentClass |-> parentClass,
          _name |-> name,
          _visibility |-> MFieldVisibility(attributes),
          _isStatic |-> MFieldIsStatic(attributes)]

GetAccessorName(name) == "get_" \o name

SetAccessorName(name) == "set_" \o name

\* a plausible slip: the setter's presence tested on the getter handle
MPropertyCtor_Mut(parentClass, name, getterHandle, setterHandle, getterAttributes, setterAttributes) ==
    LET hasGet == getterHandle # NULL
        hasSet == getterHandle # NULL
        get == IF hasGet
               THEN MMethodCtor(parentClass, GetAccessorName(name), getterHandle, 1, getterAttributes)
               ELSE NoWrapper
        set == IF hasSet
               THEN MMethodCtor(parentClass, SetAccessorName(name), setterHandle, 1, setterAttributes)
               ELSE NoWrapper
    IN  IF get = Crashed \/ set = Crashed THEN Crashed
        ELSE [tag |-> "MProperty", _parentClass |-> parentClass, _name |-> name,
              _hasGetMethod |-> hasGet, _getMethod |-> get,
              _hasSetMethod |-> hasSet, _setMethod |-> set]

MPropertyCtor(parentClass, name, getterHandle, setterHandle, getterAttributes, setterAttributes) ==
    LET hasGet == getterHandle # NULL
        hasSet == setterHandle # NULL
        get == IF hasGet
               THEN MMethodCtor(parentClass, GetAccessorName(name), getterHandle, 1, getterAttributes)
               ELSE NoWrapper
        set == IF hasSet
               THEN MMethodCtor(parentClass, SetAccessorName(name), setterHandle, 1, setterAttributes)
               ELSE NoWrapper
    IN  IF get = Crashed \/ set = Crashed THEN Crashed
        ELSE [tag |-> "MProperty", _parentClass |-> parentClass, _name |-> name,
              _hasGetMethod |-> hasGet, _getMethod |-> get,
              _hasSetMethod |-> hasSet, _setMethod |-> set]

\* MProperty::GetGetMethod / GetSetMethod: the accessor, NoWrapper for nullptr
GetGetMethod(property) == property._getMethod

GetSetMethod(property) == property._setMethod


(***************************************************************************)
(* The managed side's type universe: what GetManagedClassFromType and      *)
(* GetManagedClasses answer.  Types 1..MaxTypes are the classes the        *)
(* assembly enumerates; ConstructedType is a type of the assembly that the *)
(* enumeration does not list (a generic instantiation); AliasType is a     *)
(* second handle of type 1, for which the describe call returns handle 1.  *)
(***************************************************************************)
Assemblies == {1}

AssemblyHandleOf(A) == 100 + A

EnumeratedTypes == 1..MaxTypes

ConstructedType == MaxTypes + 1

AliasType == MaxTypes + 2

TypeHandles == 1..(MaxTypes + 2)

CanonicalHandle(t) == IF t = AliasType THEN 1 ELSE t

TypeAttributesOf(t) ==
    CASE t % 3 = 1 -> MTypeAttributes_Public
      [] t % 3 = 2 -> BitOr(MTypeAttributes_Public, staticClassFlags)
      [] OTHER -> BitOr(MTypeAttributes_NestedFamily,
                        BitOr(MTypeAttributes_Interface, MTypeAttributes_Abstract))

\* NativeClassDefinitions of a type, plus the owning assembly handle
NativeClassDefinitions(t) ==
    [typeHandle |-> t, fullname |-> t, typeAttributes |-> TypeAttributesOf(t)]

GetManagedClassFromType(typeHandle) ==
    [classInfo |-> NativeClassDefinitions(CanonicalHandle(typeHandle)),
     assemblyHandle |-> AssemblyHandleOf(1)]

GetManagedClasses(assemblyHandle) ==
    [i \in EnumeratedTypes |-> NativeClassDefinitions(i)]

(***************************************************************************)
(* GetAssembly, MAssembly::GetClasses and GetOrCreateClass on the heap.    *)
(***************************************************************************)
GetAssembly(assemblyHandle) == DictTryGet(assemblyHandles, assemblyHandle)

\* Dictionary::Add on an assembly's _classes
ClassesAdd(h, A, fullname, klass) ==
    IF h.crash # "none" THEN h
    ELSE IF assertionsEnabled /\ DictHas(h.asmClasses[A], fullname)
         THEN [h EXCEPT !.crash = "ASSERT"]
    ELSE [h EXCEPT !.asmClasses[A] = DictAdd(@, fullname, klass)]

\* the loop of MAssembly::GetClasses over the returned class records
RECURSIVE PopulateClasses(_, _, _, _)
PopulateClasses(h, A, managedClasses, i) ==
    IF i > Len(managedClasses) \/ h.crash # "none" THEN h
    ELSE LET managedClass == managedClasses[i] IN
         Then(MClassCtor(h, A, managedClass.typeHandle, managedClass.fullname,
                         managedClass.typeAttributes), LAMBDA h1 :
         Then(ClassesAdd(h1, A, managedClass.fullname, h.nextObj), LAMBDA h2 :
         PopulateClasses(h2, A, managedClasses, i + 1)))

MAssemblyGetClasses(h, A) ==
    IF h.crash # "none" THEN h
    ELSE IF h.asmHasCachedClasses[A] \/ asmHandle[A] = NULL THEN h
    ELSE IF assertionsEnabled /\ h.asmClasses[A] # <<>> THEN [h EXCEPT !.crash = "ASSERT"]
    ELSE Then(PopulateClasses(h, A, GetManagedClasses(asmHandle[A]), 1), LAMBDA h1 :
            IF h1.crash # "none" THEN h1
            ELSE [h1 EXCEPT !.asmHasCachedClasses[A] = TRUE])

\* GetOrCreateClass without its test of the handle
GetOrCreateClassOp_Mut(h, typeHandle) ==
    IF DictHas(h.classHandles, typeHandle)
         THEN [heap |-> h, klass |-> DictTryGet(h.classHandles, typeHandle)]
    ELSE LET described == GetManagedClassFromType(typeHandle)
             classInfo == described.classInfo
             assembly == GetAssembly(described.assemblyHandle)
             klass == h.nextObj
         IN  Then(MClassCtor(h, assembly, classInfo.typeHandle, classInfo.fullname,
                             classInfo.typeAttributes), LAMBDA h1 :
             Then(IF assembly # NULL THEN MAssemblyGetClasses(h1, assembly) ELSE h1,
                  LAMBDA h2 :
             Then(IF assembly # NULL
                  THEN ClassesAdd(h2, assembly, classInfo.fullname, klass) ELSE h2,
                  LAMBDA h3 :
             [heap |-> h3, klass |-> IF h3.crash = "none" THEN klass ELSE NULL])))

\* the result is [heap, klass]; klass is NULL for nullptr
GetOrCreateClassOp(h, typeHandle) ==
    IF typeHandle = NULL THEN [heap |-> h, klass |-> NULL]
    ELSE IF DictHas(h.classHandles, typeHandle)
         THEN [heap |-> h, klass |-> DictTryGet(h.classHandles, typeHandle)]
    ELSE LET described == GetManagedClassFromType(typeHandle)
             classInfo == described.classInfo
             assembly == GetAssembly(described.assemblyHandle)
             klass == h.nextObj
         IN  Then(MClassCtor(h, assembly, classInfo.typeHandle, classInfo.fullname,
                             classInfo.typeAttributes), LAMBDA h1 :
             Then(IF assembly # NULL THEN MAssemblyGetClasses(h1, assembly) ELSE h1,
                  LAMBDA h2 :
             Then(IF assembly # NULL
                  THEN ClassesAdd(h2, assembly, classInfo.fullname, klass) ELSE h2,
                  LAMBDA h3 :
             [heap |-> h3, klass |-> IF h3.crash = "none" THEN klass ELSE NULL])))

\* MClass::~MClass, and the owner dropping its pointer to the deleted class
MClassDtor(h, o) ==
    [h EXCEPT
        !.classHandles = DictRemove(h.classHandles, h.mclass[o]._handle),
        !.mclass = [h.mclass EXCEPT ![o] = Destroyed],
        !.asmClasses = [A \in Assemblies |->
            SelectSeq(h.asmClasses[A], LAMBDA b : b[2] # o)]]

\* objects a GetOrCreateClass or GetClasses call may allocate
WouldPopulate(A) == ~asmHasCachedClasses[A] /\ asmHandle[A] # NULL

HasRoomFor(n) == nextObj + n - 1 <= MaxObjects

\* the number of MClass objects GetOrCreateClass(typeHandle) allocates
AllocatedBy(typeHandle) ==
    IF typeHandle = NULL \/ DictHas(classHandles, typeHandle) THEN 0
    ELSE LET assembly == GetAssembly(GetManagedClassFromType(typeHandle).assemblyHandle)
         IN  IF assembly # NULL /\ WouldPopulate(assembly) THEN 1 + MaxTypes ELSE 1

(***************************************************************************)
(* Operations on the handle cache.                                         *)
(***************************************************************************)
SetHeap(h) ==
    /\ mclass' = h.mclass
    /\ nextObj' = h.nextObj
    /\ classHandles' = h.classHandles
    /\ asmClasses' = h.asmClasses
    /\ asmHasCachedClasses' = h.asmHasCachedClasses
    /\ describeCalls' = h.describeCalls
    /\ crash' = h.crash

\* the name, fullname and namespace_ buffers the managed side allocates for
\* the classInfo of the call-th GetManagedClassFromType call
ClassInfoBuffers(call) ==
    [name |-> <<call, "name">>, fullname |-> <<call, "fullname">>,
     namespace_ |-> <<call, "namespace_">>]

\* the buffers a GetOrCreateClass(typeHandle) call that returns was handed by
\* its describe calls, and the MCore::GC::FreeMemory calls it made: the second
\* describe call writes into the same classInfo as the first
GetOrCreateClassBuffers(h, typeHandle) ==
    IF typeHandle = NULL \/ DictHas(h.classHandles, typeHandle)
    THEN [allocated |-> {}, freed |-> <<>>]
    ELSE LET first == ClassInfoBuffers(1)
             again == typeHandle # GetManagedClassFromType(typeHandle).classInfo.typeHandle
             classInfo == IF again THEN ClassInfoBuffers(2) ELSE first
             Pointers(info) == {info.name, info.fullname, info.namespace_}
         IN  [allocated |-> Pointers(first) \cup Pointers(classInfo),
              freed |-> <<classInfo.name, classInfo.fullname, classInfo.namespace_>>]

GetOrCreateClass(typeHandle) ==
    /\ crash = "none"
    /\ HasRoomFor(AllocatedBy(typeHandle))
    /\ LET r == GetOrCreateClassOp(Heap, typeHandle) IN
        /\ SetHeap(r.heap)
        /\ returned' = IF r.klass # NULL
                       THEN [returned EXCEPT ![typeHandle] = @ \cup {r.klass}]
                       ELSE returned
        /\ describeBuffers' = IF r.heap.crash = "none"
                              THEN GetOrCreateClassBuffers(Heap, typeHandle)
                              ELSE describeBuffers
    /\ UNCHANGED <<assertionsEnabled, assemblyHandles, asmHandle, gatewayVars, ctorVars, memberVars, excVars, bridgesExceptBuffers>>

GetClasses(A) ==
    /\ crash = "none"
    /\ HasRoomFor(IF WouldPopulate(A) THEN MaxTypes ELSE 0)
    /\ SetHeap(MAssemblyGetClasses(Heap, A))
    /\ UNCHANGED <<assertionsEnabled, assemblyHandles, asmHandle, returned, gatewayVars, ctorVars, memberVars, excVars, bridgeVars>>

\* a member wrapper of class object o: the wrapper at index of its cache
\* category, or that property's get or set accessor
WrapperId(o, category, index, part) ==
    [obj |-> o, category |-> category, index |-> index, part |-> part]

\* Array::ClearDelete of one member cache: Delete on every element in turn;
\* MProperty::~MProperty deletes its accessors first
ClearDelete(o, category, members) ==
    LET DeleteAt(i) ==
            IF category = "properties"
            THEN (IF members[i]._getMethod # NoWrapper
                  THEN <<WrapperId(o, category, i, "get")>> ELSE <<>>)
                 \o (IF members[i]._setMethod # NoWrapper
                     THEN <<WrapperId(o, category, i, "set")>> ELSE <<>>)
                 \o <<WrapperId(o, category, i, "self")>>
            ELSE <<WrapperId(o, category, i, "self")>>
        RECURSIVE From(_)
        From(i) == IF i > Len(members) THEN <<>> ELSE DeleteAt(i) \o From(i + 1)
    IN  From(1)

\* the deletes of MClass::~MClass; _events is never added to
MClassDtorDeletes(c, o) ==
    ClearDelete(o, "methods", c._methods)
    \o ClearDelete(o, "fields", c._fields)
    \o ClearDelete(o, "properties", c._properties)

\* the bag of the elements of a sequence
RECURSIVE BagOf(_)
BagOf(seq) == IF seq = <<>> THEN EmptyBag ELSE SetToBag({Head(seq)}) (+) BagOf(Tail(seq))

DestroyClass(o) ==
    /\ crash = "none"
    /\ IsLive(o)
    /\ deleted' = deleted (+) BagOf(MClassDtorDeletes(mclass[o], o))
    /\ SetHeap(MClassDtor(Heap, o))
    /\ returned' = [t \in TypeHandles |-> {}]
    /\ UNCHANGED <<assertionsEnabled, assemblyHandles, asmHandle, gatewayVars, ctorVars, memberVars, excVars, bridgesExceptDtor>>

InitProcess ==
    /\ assertionsEnabled \in BOOLEAN
    /\ crash = "none"

InitHeap ==
    /\ mclass = [o \in Objects |-> NoObject]
    /\ nextObj = 1
    /\ classHandles = <<>>
    /\ asmHasCachedClasses = [A \in Assemblies |-> FALSE]
    /\ asmClasses = [A \in Assemblies |-> <<>>]
    /\ returned = [t \in TypeHandles |-> {}]
    /\ describeCalls = [o \in Objects |-> [c \in MemberCategories |-> 0]]

\* the assembly wrapper is either not loaded, or loaded and registered
InitAssemblies ==
    \E loaded \in SUBSET Assemblies :
        /\ asmHandle = [A \in Assemblies |-> IF A \in loaded THEN AssemblyHandleOf(A) ELSE NULL]
        /\ \E order \in [1..Cardinality(loaded) -> loaded] :
            /\ \A i, j \in DOMAIN order : i # j => order[i] # order[j]
            /\ assemblyHandles = [i \in DOMAIN order |-> <<AssemblyHandleOf(order[i]), order[i]>>]

InitCtor ==
    /\ ctorIn = NoInput
    /\ ctorOut = NoWrapper

InitMembers == lastCall = NoCall

InitException ==
    /\ mexc = <<>>
    /\ excResult = NoException

\* entry point names: two the managed NativeInterop type exports, one it does not
ExportedNames == {"Init", "GetManagedClasses"}

Names == ExportedNames \cup {"Unknown"}

InitGateway ==
    /\ CachedFunctions = <<>>
    /\ calls = [n \in Names |-> 0]
    /\ lookups = [n \in Names |-> 0]
    /\ resolved = [n \in Names |-> {}]
    /\ fatalLogged = {}

\* the managed objects handles are made for, and the handle slots
ManagedObjects == {1, 2}

HandleSlots == 1..MaxHandles

NoTarget == [op |-> "none"]

UnusedHandle == [state |-> "unused", target |-> NULL, weak |-> FALSE]

InitGC ==
    /\ gcHandles = [i \in HandleSlots |-> UnusedHandle]
    /\ reachable = ManagedObjects
    /\ lastCreated = NULL
    /\ lastTarget = NoTarget

NoOutcome == [op |-> "none"]

InitInvoke ==
    /\ invokeIn = NoInput
    /\ InvokeMethodPtr = NULL
    /\ invokeOut = NoOutcome
    /\ virtualOut = NoOutcome

\* handles of the methods a thunk is asked for
ThunkMethods == {51, 52}

InitThunk ==
    /\ cachedThunk = [method \in ThunkMethods |-> NULL]
    /\ thunkCalls = [method \in ThunkMethods |-> 0]
    /\ thunkAnswers = [method \in ThunkMethods |-> <<>>]
    /\ thunkReturned = [method \in ThunkMethods |-> {}]

\* the size of an instance of a type, when the managed side reports one
InstanceSizeOf(handle) == 8 * handle

InitSize ==
    /\ managedSize = [handle \in EnumeratedTypes \cup {ConstructedType} |->
                        InstanceSizeOf(handle)]
    /\ sizeCalls = [handle \in EnumeratedTypes \cup {ConstructedType} |-> 0]
    /\ sizeQueries = [handle \in EnumeratedTypes \cup {ConstructedType} |-> <<>>]
    /\ sizeReturned = [handle \in EnumeratedTypes \cup {ConstructedType} |-> {}]

\* the host backends a build can select (DOTNET_HOST_CORECRL, DOTNET_HOST_MONO,
\* the latter with or without USE_MONO_AOT_MODULE)
HostBackends == {"CoreCLR", "Mono", "MonoAOT"}

\* the host state before LoadEngine
HostFresh ==
    /\ hostLog = <<>>
    /\ hostFailed = {}
    /\ hostResult = "none"
    /\ openLibraries = {}
    /\ managedCalls = <<>>
    /\ MRootDomain = FALSE
    /\ shutdownDone = FALSE

InitHost ==
    /\ hostBackend = "CoreCLR"
    /\ HostFresh

InitDtor == deleted = EmptyBag

InitExcDtor == excFreed = EmptyBag

\* the threads that call MAssembly::GetClasses
Threads == 1..MaxThreads

NoView == [tag |-> "none"]

InitRace ==
    /\ threadPc = [t \in Threads |-> "idle"]
    /\ locker = NULL
    /\ loopIndex = 0
    /\ enumerations = 0
    /\ synchronized = {}
    /\ observed = [t \in Threads |-> NoView]

NoBuffers == [allocated |-> {}, freed |-> <<>>]

InitBuffers == describeBuffers = NoBuffers

NoLoad == [op |-> "none"]

InitAsm ==
    /\ asmIsLoaded = [A \in Assemblies |-> FALSE]
    /\ loadCalls = 0
    /\ lastLoad = NoLoad

\* the member wrappers whose attribute queries are not implemented
MemberKinds == {"MField", "MMethod", "MProperty", "MEvent"}

NoQuery == [op |-> "none"]

InitStub ==
    /\ hasCachedAttributes = [kind \in MemberKinds |-> FALSE]
    /\ memberAttributes = [kind \in MemberKinds |-> <<>>]
    /\ hasCachedEvents = FALSE
    /\ classEvents = <<>>
    /\ lastQuery = NoQuery

\* a thread that is in no call
Idle == [pc |-> "idle"]

NoResult == [tag |-> "none"]

\* the lazily filled arrays of MClass
CachedCategories == {"methods", "fields", "properties", "interfaces", "attributes"}

InitConc ==
    /\ frame = [t \in Threads |-> Idle]
    /\ results = [t \in Threads |-> NoResult]
    /\ memberCache = [c \in CachedCategories |->
                        [cached |-> FALSE, array |-> <<>>, describes |-> 0]]

\* the test before its first statement
TestStart == [pc |-> "FindScriptingType", type |-> NULL, object |-> [class |-> "none"],
              managed |-> NULL, methodResult |-> 0]

InitTest ==
    /\ testInput = [typeName |-> "FlaxEngine.TestClassNative", str |-> <<"1", "2", "3">>]
    /\ testLocals = TestStart
    /\ testChecks = <<>>

\* no GetAttributes call made yet
NoAttributes == [tag |-> "none"]

InitAttr ==
    /\ managedAttributes = <<>>
    /\ attributesCache = [cached |-> FALSE, array |-> <<>>, describes |-> 0]
    /\ attributesReturned = NoAttributes

\* a method wrapper as its constructor leaves it: the signature not fetched
NewSignature(paramsCount) ==
    [paramsCount |-> paramsCount, cached |-> FALSE, returnFetched |-> FALSE,
     returnType |-> NULL, parameterTypes |-> <<>>, fetches |-> 0]

InitSig ==
    /\ sigFrame = [t \in Threads |-> Idle]
    /\ signature = NewSignature(0)
    /\ sigReturned = [t \in Threads |-> NoResult]

\* the properties MException::MException reads, in its order
MarshaledProperties == <<"Message", "StackTrace", "InnerException">>

InitMarshal ==
    /\ exceptionProperties = [k \in 1..3 |-> [has |-> "getter", throws |-> FALSE]]
    /\ marshalStep = 1
    /\ propertyGets = <<>>

InitEngine ==
    /\ engineBackend = "CoreCLR"
    /\ enginePc = "idle"
    /\ engineCalls = <<>>
    /\ engineRootDomain = NULL
    /\ MDomains = <<>>
    /\ engineCounts = [loads |-> 0, succeeded |-> 0, exits |-> 0, shutdowns |-> 0]
    /\ engineReturn = "none"
    /\ runtimeStarted = FALSE

NoTypeQuery ==
    [op |-> "none", self |-> NULL, handle |-> NULL, object |-> NULL, managed |-> <<>>,
     result |-> NULL, answer |-> FALSE, registryUnchanged |-> TRUE]

InitQuery == typeQuery = NoTypeQuery

InitBridge == InitGC /\ InitInvoke /\ InitThunk /\ InitSize /\ InitHost /\ InitDtor /\ InitExcDtor /\ InitRace /\ InitBuffers /\ InitAsm /\ InitStub /\ InitConc /\ InitTest /\ InitAttr /\ InitSig /\ InitMarshal /\ InitEngine /\ InitQuery

InitExceptGC == InitInvoke /\ InitThunk /\ InitSize /\ InitHost /\ InitDtor /\ InitExcDtor /\ InitRace /\ InitBuffers /\ InitAsm /\ InitStub /\ InitConc /\ InitTest /\ InitAttr /\ InitSig /\ InitMarshal /\ InitEngine /\ InitQuery

InitExceptInvoke == InitGC /\ InitThunk /\ InitSize /\ InitHost /\ InitDtor /\ InitExcDtor /\ InitRace /\ InitBuffers /\ InitAsm /\ InitStub /\ InitConc /\ InitTest /\ InitAttr /\ InitSig /\ InitMarshal /\ InitEngine /\ InitQuery

InitExceptThunk == InitGC /\ InitInvoke /\ InitSize /\ InitHost /\ InitDtor /\ InitExcDtor /\ InitRace /\ InitBuffers /\ InitAsm /\ InitStub /\ InitConc /\ InitTest /\ InitAttr /\ InitSig /\ InitMarshal /\ InitEngine /\ InitQuery

InitExceptSize == InitGC /\ InitInvoke /\ InitThunk /\ InitHost /\ InitDtor /\ InitExcDtor /\ InitRace /\ InitBuffers /\ InitAsm /\ InitStub /\ InitConc /\ InitTest /\ InitAttr /\ InitSig /\ InitMarshal /\ InitEngine /\ InitQuery

InitExceptHost == InitGC /\ InitInvoke /\ InitThunk /\ InitSize /\ InitDtor /\ InitExcDtor /\ InitRace /\ InitBuffers /\ InitAsm /\ InitStub /\ InitConc /\ InitTest /\ InitAttr /\ InitSig /\ InitMarshal /\ InitEngine /\ InitQuery

InitExceptDtor == InitGC /\ InitInvoke /\ InitThunk /\ InitSize /\ InitHost /\ InitExcDtor /\ InitRace /\ InitBuffers /\ InitAsm /\ InitStub /\ InitConc /\ InitTest /\ InitAttr /\ InitSig /\ InitMarshal /\ InitEngine /\ InitQuery

InitExceptExcDtor == InitGC /\ InitInvoke /\ InitThunk /\ InitSize /\ InitHost /\ InitDtor /\ InitRace /\ InitBuffers /\ InitAsm /\ InitStub /\ InitConc /\ InitTest /\ InitAttr /\ InitSig /\ InitMarshal /\ InitEngine /\ InitQuery

InitExceptRace == InitGC /\ InitInvoke /\ InitThunk /\ InitSize /\ InitHost /\ InitDtor /\ InitExcDtor /\ InitBuffers /\ InitAsm /\ InitStub /\ InitConc /\ InitTest /\ InitAttr /\ InitSig /\ InitMarshal /\ InitEngine /\ InitQuery

InitExceptBuffers == InitGC /\ InitInvoke /\ InitThunk /\ InitSize /\ InitHost /\ InitDtor /\ InitExcDtor /\ InitRace /\ InitAsm /\ InitStub /\ InitConc /\ InitTest /\ InitAttr /\ InitSig /\ InitMarshal /\ InitEngine /\ InitQuery

InitExceptAsm == InitGC /\ InitInvoke /\ InitThunk /\ InitSize /\ InitHost /\ InitDtor /\ InitExcDtor /\ InitRace /\ InitBuffers /\ InitStub /\ InitConc /\ InitTest /\ InitAttr /\ InitSig /\ InitMarshal /\ InitEngine /\ InitQuery

InitExceptStub == InitGC /\ InitInvoke /\ InitThunk /\ InitSize /\ InitHost /\ InitDtor /\ InitExcDtor /\ InitRace /\ InitBuffers /\ InitAsm /\ InitConc /\ InitTest /\ InitAttr /\ InitSig /\ InitMarshal /\ InitEngine /\ InitQuery

InitExceptConc == InitGC /\ InitInvoke /\ InitThunk /\ InitSize /\ InitHost /\ InitDtor /\ InitExcDtor /\ InitRace /\ InitBuffers /\ InitAsm /\ InitStub /\ InitTest /\ InitAttr /\ InitSig /\ InitMarshal /\ InitEngine /\ InitQuery

InitExceptTest == InitGC /\ InitInvoke /\ InitThunk /\ InitSize /\ InitHost /\ InitDtor /\ InitExcDtor /\ InitRace /\ InitBuffers /\ InitAsm /\ InitStub /\ InitConc /\ InitAttr /\ InitSig /\ InitMarshal /\ InitEngine /\ InitQuery

InitExceptAttr == InitGC /\ InitInvoke /\ InitThunk /\ InitSize /\ InitHost /\ InitDtor /\ InitExcDtor /\ InitRace /\ InitBuffers /\ InitAsm /\ InitStub /\ InitConc /\ InitTest /\ InitSig /\ InitMarshal /\ InitEngine /\ InitQuery

InitExceptSig == InitGC /\ InitInvoke /\ InitThunk /\ InitSize /\ InitHost /\ InitDtor /\ InitExcDtor /\ InitRace /\ InitBuffers /\ InitAsm /\ InitStub /\ InitConc /\ InitTest /\ InitAttr /\ InitMarshal /\ InitEngine /\ InitQuery

InitExceptMarshal == InitGC /\ InitInvoke /\ InitThunk /\ InitSize /\ InitHost /\ InitDtor /\ InitExcDtor /\ InitRace /\ InitBuffers /\ InitAsm /\ InitStub /\ InitConc /\ InitTest /\ InitAttr /\ InitSig /\ InitEngine /\ InitQuery

InitExceptEngine == InitGC /\ InitInvoke /\ InitThunk /\ InitSize /\ InitHost /\ InitDtor /\ InitExcDtor /\ InitRace /\ InitBuffers /\ InitAsm /\ InitStub /\ InitConc /\ InitTest /\ InitAttr /\ InitSig /\ InitMarshal /\ InitQuery

InitExceptQuery == InitGC /\ InitInvoke /\ InitThunk /\ InitSize /\ InitHost /\ InitDtor /\ InitExcDtor /\ InitRace /\ InitBuffers /\ InitAsm /\ InitStub /\ InitConc /\ InitTest /\ InitAttr /\ InitSig /\ InitMarshal /\ InitEngine

Init ==
    /\ InitBridge
    /\ InitProcess
    /\ InitHeap
    /\ InitAssemblies
    /\ InitGateway
    /\ InitCtor
    /\ InitMembers
    /\ InitException

Next ==
    \/ \E typeHandle \in TypeHandles \cup {NULL} : GetOrCreateClass(typeHandle)
    \/ \E A \in Assemblies : GetClasses(A)
    \/ \E o \in Objects : DestroyClass(o)

Spec == Init /\ [][Next]_vars


(***************************************************************************)
(* C1 and C2: the identity of the class wrappers.                          *)
(***************************************************************************)
LiveObjects == {o \in Objects : IsLive(o)}

BucketsOf(d, k, v) == {i \in DOMAIN d : d[i] = <<k, v>>}

\* C1: for every type handle H, successive GetOrCreateClass(H) calls with no
\* class destruction in between return (none of them ends the process in a
\* failed assertion) and return the same MClass object, also for a handle
\* whose describe call reports a different canonical handle.
C1_SameObjectReturned ==
    /\ crash = "none"
    /\ \A t \in TypeHandles : Cardinality(returned[t]) <= 1

\* C2: no two live MClass objects have the same type handle, classHandles
\* holds exactly one entry per live class, keyed by the class's handle, and
\* no insertion of an already-present key is made (none is attempted, which
\* a build with assertions answers with a failed assertion).
C2_OneClassPerHandle ==
    /\ crash # "ASSERT"
    /\ \A o1, o2 \in LiveObjects : mclass[o1]._handle = mclass[o2]._handle => o1 = o2
    /\ \A o \in LiveObjects : Cardinality(BucketsOf(classHandles, mclass[o]._handle, o)) = 1
    /\ Len(classHandles) = Cardinality(LiveObjects)

(***************************************************************************)
(* The wrapper constructors run on their own on every attribute bitmask.   *)
(***************************************************************************)
TypeAttributeInputs ==
    {v + l * MTypeAttributes_SequentialLayout + i * MTypeAttributes_Interface
       + a * MTypeAttributes_Abstract + s * MTypeAttributes_Sealed :
        v \in 0..7, l \in {0, 1}, i \in {0, 1}, a \in {0, 1}, s \in {0, 1}}

MemberAttributeInputs ==
    {v + e * MMethodAttributes_UnmanagedExport + s * MMethodAttributes_Static :
        v \in 0..7, e \in {0, 1}, s \in {0, 1}}

AccessorAttributeInputs ==
    {MMethodAttributes_Private, MMethodAttributes_Public,
     MMethodAttributes_Family + MMethodAttributes_Static, 0, 7}

PropertyNames == {"Message", "Value"}

CtorInputs ==
    [kind : {"class"}, attributes : TypeAttributeInputs]
    \cup [kind : {"method", "field"}, attributes : MemberAttributeInputs]
    \cup [kind : {"property"}, name : PropertyNames,
          getterHandle : {NULL, 7}, setterHandle : {NULL, 8},
          getterAttributes : AccessorAttributeInputs,
          setterAttributes : AccessorAttributeInputs]

\* New<MClass>(nullptr, 1, ..., attributes)
NewMClass ==
    /\ crash = "none"
    /\ ctorIn.kind = "class"
    /\ ctorOut = NoWrapper
    /\ LET h == MClassCtor(Heap, NULL, 1, 1, ctorIn.attributes) IN
        /\ SetHeap(h)
        /\ ctorOut' = IF h.crash = "none" THEN [tag |-> "MClass", obj |-> nextObj]
                      ELSE NoWrapper
    /\ UNCHANGED <<assertionsEnabled, assemblyHandles, asmHandle, returned, gatewayVars, ctorIn, memberVars, excVars, bridgeVars>>

\* what a member constructor leaves behind: the wrapper, or the crash
SetWrapper(w) ==
    /\ crash' = IF w = Crashed THEN "CRASH" ELSE crash
    /\ ctorOut' = IF w = Crashed THEN NoWrapper ELSE w

\* New<MMethod>(parentClass, "Method", handle, 2, attributes)
NewMMethod ==
    /\ crash = "none"
    /\ ctorIn.kind = "method"
    /\ ctorOut = NoWrapper
    /\ SetWrapper(MMethodCtor(1, "Method", 5, 2, ctorIn.attributes))
    /\ UNCHANGED <<assertionsEnabled, classVars, gatewayVars, ctorIn, memberVars, excVars, bridgeVars>>

\* New<MField>(parentClass, handle, "Field", type, attributes)
NewMField ==
    /\ crash = "none"
    /\ ctorIn.kind = "field"
    /\ ctorOut = NoWrapper
    /\ SetWrapper(MFieldCtor(1, 6, "Field", 2, ctorIn.attributes))
    /\ UNCHANGED <<assertionsEnabled, classVars, gatewayVars, ctorIn, memberVars, excVars, bridgeVars>>

\* New<MProperty>(parentClass, name, getterHandle, setterHandle, ...)
NewMProperty ==
    /\ crash = "none"
    /\ ctorIn.kind = "property"
    /\ ctorOut = NoWrapper
    /\ SetWrapper(MPropertyCtor(1, ctorIn.name, ctorIn.getterHandle, ctorIn.setterHandle,
                                ctorIn.getterAttributes, ctorIn.setterAttributes))
    /\ UNCHANGED <<assertionsEnabled, classVars, gatewayVars, ctorIn, memberVars, excVars, bridgeVars>>

InitUnloaded ==
    /\ asmHandle = [A \in Assemblies |-> NULL]
    /\ assemblyHandles = <<>>

InitCtorSpec ==
    /\ InitBridge
    /\ InitProcess
    /\ InitHeap
    /\ InitUnloaded
    /\ InitGateway
    /\ ctorIn \in CtorInputs
    /\ ctorOut = NoWrapper
    /\ InitMembers
    /\ InitException

NextCtor ==
    \/ NewMClass
    \/ NewMMethod
    \/ NewMField
    \/ NewMProperty

SpecCtor == InitCtorSpec /\ [][NextCtor]_vars

CtorRan == ctorOut # NoWrapper \/ crash # "none"

ClassVisibilityTable ==
    <<"Private", "Public", "Public", "Private", "Internal", "Internal",
      "PrivateProtected", "ProtectedInternal">>

MemberVisibilityTable ==
    <<"Private", "PrivateProtected", "Internal", "Protected", "ProtectedInternal", "Public">>

\* C5: the class visibility is decoded from the 3-bit visibility sub-mask as
\* NotPublic/NestedPrivate -> Private, Public/NestedPublic -> Public,
\* NestedFamily/NestedAssembly -> Internal, NestedFamORAssem ->
\* ProtectedInternal, NestedFamANDAssem -> PrivateProtected; the crash path is
\* taken only by a value outside this domain, and no class is built then.
C5_ClassVisibilityDecoded ==
    (ctorIn.kind = "class" /\ CtorRan) =>
        LET v == ctorIn.attributes % 8 IN
        IF v \in 0..7
        THEN /\ crash = "none"
             /\ ctorOut.tag = "MClass"
             /\ mclass[ctorOut.obj]._visibility = ClassVisibilityTable[v + 1]
        ELSE crash = "CRASH" /\ ctorOut = NoWrapper

C5_Witness ==
    /\ ctorIn.kind = "class"
    /\ ctorIn.attributes % 8 = MTypeAttributes_NestedFamANDAssem
    /\ ctorOut.tag = "MClass"
    /\ mclass[ctorOut.obj]._visibility = "PrivateProtected"

HasBit(attributes, bit) == (attributes \div bit) % 2 = 1

\* C6: a constructed class is static iff both the Abstract and the Sealed bit
\* are set; a static class reports IsSealed = IsAbstract = false, a non-static
\* class reports each flag equal to its bit.
C6_StaticSealedAbstract ==
    (ctorIn.kind = "class" /\ ctorOut.tag = "MClass") =>
        LET c == mclass[ctorOut.obj]
            abstractBit == HasBit(ctorIn.attributes, 128)
            sealedBit == HasBit(ctorIn.attributes, 256)
        IN  /\ c._isStatic <=> (abstractBit /\ sealedBit)
            /\ c._isStatic => (~c._isSealed /\ ~c._isAbstract)
            /\ ~c._isStatic => (c._isSealed = sealedBit /\ c._isAbstract = abstractBit)

C6_Witness ==
    /\ ctorIn.kind = "class"
    /\ ctorOut.tag = "MClass"
    /\ HasBit(ctorIn.attributes, 128) /\ HasBit(ctorIn.attributes, 256)
    /\ mclass[ctorOut.obj]._isStatic
    /\ ~mclass[ctorOut.obj]._isSealed

\* the outcome the member-access table asks of one wrapper constructor call
MemberDecoded(attributes, wrapper) ==
    LET v == attributes % 8 IN
    IF v \in 1..6
    THEN wrapper # NoWrapper => wrapper._visibility = MemberVisibilityTable[v]
    ELSE wrapper = NoWrapper /\ crash = "CRASH"

\* C7: for every method, property accessor and field the low 3 bits decode as
\* Private -> Private, FamANDAssem -> PrivateProtected, Assembly -> Internal,
\* Family -> Protected, FamORAssem -> ProtectedInternal, Public -> Public; any
\* other value (0 or 7) reaches the crash path and produces no wrapper.
C7_MemberVisibilityDecoded ==
    CtorRan =>
        CASE ctorIn.kind \in {"method", "field"} ->
                /\ MemberDecoded(ctorIn.attributes, ctorOut)
                /\ ctorIn.attributes % 8 \in 1..6 => (ctorOut # NoWrapper /\ crash = "none")
          [] ctorIn.kind = "property" ->
                /\ ctorOut # NoWrapper =>
                    /\ ctorIn.getterHandle # NULL =>
                        MemberDecoded(ctorIn.getterAttributes, ctorOut._getMethod)
                    /\ ctorIn.setterHandle # NULL =>
                        MemberDecoded(ctorIn.setterAttributes, ctorOut._setMethod)
                /\ ctorOut = NoWrapper =>
                    /\ crash = "CRASH"
                    /\ \/ ctorIn.getterHandle # NULL /\ ctorIn.getterAttributes % 8 \notin 1..6
                       \/ ctorIn.setterHandle # NULL /\ ctorIn.setterAttributes % 8 \notin 1..6
          [] OTHER -> TRUE

C7_Witness ==
    /\ ctorIn.kind = "method"
    /\ ctorIn.attributes % 8 = 0
    /\ crash = "CRASH"
    /\ ctorOut = NoWrapper

ExpectedGetName == [n \in PropertyNames |-> IF n = "Message" THEN "get_Message" ELSE "get_Value"]

ExpectedSetName == [n \in PropertyNames |-> IF n = "Message" THEN "set_Message" ELSE "set_Value"]

\* C8: a property's get-accessor is non-null exactly when the getter handle
\* is non-null, its set-accessor exactly when the setter handle is non-null; a
\* present accessor is named "get_" / "set_" + property name and has the
\* property's class as declaring class.
C8_PropertyAccessors ==
    (ctorIn.kind = "property" /\ ctorOut.tag = "MProperty") =>
        LET get == GetGetMethod(ctorOut)
            set == GetSetMethod(ctorOut)
        IN  /\ (get # NoWrapper) <=> (ctorIn.getterHandle # NULL)
            /\ (set # NoWrapper) <=> (ctorIn.setterHandle # NULL)
            /\ get # NoWrapper =>
                /\ get._name = ExpectedGetName[ctorIn.name]
                /\ get._handle = ctorIn.getterHandle
                /\ get._parentClass = ctorOut._parentClass
            /\ set # NoWrapper =>
                /\ set._name = ExpectedSetName[ctorIn.name]
                /\ set._handle = ctorIn.setterHandle
                /\ set._parentClass = ctorOut._parentClass

C8_Witness ==
    /\ ctorIn.kind = "property"
    /\ ctorOut.tag = "MProperty"
    /\ ctorIn.getterHandle # NULL
    /\ ctorIn.setterHandle = NULL
    /\ GetGetMethod(ctorOut) # NoWrapper
    /\ GetGetMethod(ctorOut)._name = "get_Message"
    /\ GetSetMethod(ctorOut) = NoWrapper


(***************************************************************************)
(* The managed call gateway: GetStaticMethodPointer of the hostfxr host.   *)
(***************************************************************************)
\* the pointers get_function_pointer may hand out for an exported name
PointersOf(methodName) == IF methodName = "Init" THEN {11, 12} ELSE {21, 22}

\* what get_function_pointer answers: the return code and the value it leaves
\* in the out parameter.  For a name the type does not export the code is not
\* zero and fun keeps whatever the uninitialized local held.
get_function_pointer(methodName) ==
    IF methodName \in ExportedNames
    THEN [rc : {0}, fun : PointersOf(methodName)]
    ELSE [rc : {1}, fun : {NULL, 99}]

\* the lookup without the memoizing Add
GetStaticMethodPointer_Mut(methodName) ==
    /\ crash = "none"
    /\ calls[methodName] < MaxCalls
    /\ calls' = [calls EXCEPT ![methodName] = @ + 1]
    /\ IF DictHas(CachedFunctions, methodName)
       THEN /\ resolved' = [resolved EXCEPT ![methodName] =
                                @ \cup {DictTryGet(CachedFunctions, methodName)}]
            /\ UNCHANGED <<CachedFunctions, lookups, fatalLogged, crash>>
       ELSE \E answer \in get_function_pointer(methodName) :
            /\ lookups' = [lookups EXCEPT ![methodName] = @ + 1]
            /\ fatalLogged' = IF answer.rc # 0 THEN fatalLogged \cup {methodName}
                              ELSE fatalLogged
            /\ resolved' = [resolved EXCEPT ![methodName] = @ \cup {answer.fun}]
            /\ UNCHANGED <<CachedFunctions, crash>>
    /\ UNCHANGED <<assertionsEnabled, classVars, ctorVars, memberVars, excVars, bridgeVars>>

\* LOG(Fatal, ...) ends the process on the main thread and returns on any
\* other thread (exited), after which the function goes on.
GetStaticMethodPointer(methodName) ==
    /\ crash = "none"
    /\ calls[methodName] < MaxCalls
    /\ calls' = [calls EXCEPT ![methodName] = @ + 1]
    /\ IF DictHas(CachedFunctions, methodName)
       THEN /\ resolved' = [resolved EXCEPT ![methodName] =
                                @ \cup {DictTryGet(CachedFunctions, methodName)}]
            /\ UNCHANGED <<CachedFunctions, lookups, fatalLogged, crash>>
       ELSE \E answer \in get_function_pointer(methodName), exited \in BOOLEAN :
            /\ lookups' = [lookups EXCEPT ![methodName] = @ + 1]
            /\ fatalLogged' = IF answer.rc # 0 THEN fatalLogged \cup {methodName}
                              ELSE fatalLogged
            /\ IF answer.rc # 0 /\ exited
               THEN /\ crash' = "Fatal"
                    /\ UNCHANGED <<CachedFunctions, resolved>>
               ELSE /\ CachedFunctions' = DictAdd(CachedFunctions, methodName, answer.fun)
                    /\ resolved' = [resolved EXCEPT ![methodName] = @ \cup {answer.fun}]
                    /\ UNCHANGED crash
    /\ UNCHANGED <<assertionsEnabled, classVars, ctorVars, memberVars, excVars, bridgeVars>>

InitGatewaySpec ==
    /\ InitBridge
    /\ InitProcess
    /\ InitHeap
    /\ InitUnloaded
    /\ InitGateway
    /\ InitCtor
    /\ InitMembers
    /\ InitException

NextGateway == \E methodName \in Names : GetStaticMethodPointer(methodName)

SpecGateway == InitGatewaySpec /\ [][NextGateway]_vars

\* C3: in a single-threaded run, resolving the same entry-point name any
\* number of times returns the same pointer each time, the one in the cache,
\* and performs the get_function_pointer lookup for that name exactly once.
C3_ResolvedOnce ==
    \A n \in Names :
        /\ lookups[n] <= 1
        /\ calls[n] >= 1 => lookups[n] = 1
        /\ Cardinality(resolved[n]) <= 1
        /\ \A fun \in resolved[n] :
            Cardinality(BucketsOf(CachedFunctions, n, fun)) = 1

C3_Witness ==
    /\ crash = "none"
    /\ calls["Init"] = 3
    /\ lookups["Init"] = 1
    /\ resolved["Init"] = {12}


(***************************************************************************)
(* The member caches of a class.                                           *)
(***************************************************************************)
\* NativeMethodDefinitions the managed side may return for a class; the
\* method handle of a record is given by its place in the returned array
MethodDefinitions ==
    [name : {"Foo", "Bar"}, numParameters : {0, 1},
     methodAttributes : {MMethodAttributes_Public}]
    \cup {[name |-> "Foo", numParameters |-> 1,
           methodAttributes |-> MMethodAttributes_Private + MMethodAttributes_Static],
          [name |-> "Bar", numParameters |-> 0, methodAttributes |-> 0]}

RECURSIVE SeqsUpTo(_, _)
SeqsUpTo(S, n) ==
    IF n = 0 THEN {<<>>}
    ELSE LET shorter == SeqsUpTo(S, n - 1) IN
         shorter \cup {Append(q, x) : q \in {r \in shorter : Len(r) = n - 1}, x \in S}

GetClassMethodsAnswers == SeqsUpTo(MethodDefinitions, MaxMembers)

\* the answers a GetMethods call on class c can receive: the describe call
\* is issued only while the cache is not populated
MethodsAnswersFor(c) == IF c._hasCachedMethods THEN {<<>>} ELSE GetClassMethodsAnswers

MethodHandleAt(i) == 50 + i

\* NativeFieldDefinitions of a class
GetClassFields(handle) ==
    << [name |-> "SimpleField", fieldHandle |-> 41, fieldType |-> 2,
        fieldAttributes |-> MFieldAttributes_Public],
       [name |-> "SimpleStruct", fieldHandle |-> 42, fieldType |-> 3,
        fieldAttributes |-> MFieldAttributes_Private + MFieldAttributes_Static] >>

\* NativePropertyDefinitions of a class
GetClassProperties(handle) ==
    << [name |-> "Message", getterHandle |-> 31, setterHandle |-> NULL,
        getterAttributes |-> MMethodAttributes_Public, setterAttributes |-> 0],
       [name |-> "StackTrace", getterHandle |-> 32, setterHandle |-> NULL,
        getterAttributes |-> MMethodAttributes_Public, setterAttributes |-> 0],
       [name |-> "InnerException", getterHandle |-> 33, setterHandle |-> NULL,
        getterAttributes |-> MMethodAttributes_Public, setterAttributes |-> 0],
       [name |-> "Value", getterHandle |-> 34, setterHandle |-> 35,
        getterAttributes |-> MMethodAttributes_Public,
        setterAttributes |-> MMethodAttributes_Private] >>

\* _methods.Add / _fields.Add / _properties.Add of a built wrapper
AddMember(h, o, category, wrapper) ==
    IF wrapper = Crashed THEN [h EXCEPT !.crash = "CRASH"]
    ELSE CASE category = "methods" -> [h EXCEPT !.mclass[o]._methods = Append(@, wrapper)]
           [] category = "fields" -> [h EXCEPT !.mclass[o]._fields = Append(@, wrapper)]
           [] OTHER -> [h EXCEPT !.mclass[o]._properties = Append(@, wrapper)]

\* the loops of GetMethods, GetFields and GetProperties over the records
RECURSIVE AddMembers(_, _, _, _, _)
AddMembers(h, o, category, definitions, i) ==
    IF i > Len(definitions) \/ h.crash # "none" THEN h
    ELSE LET definition == definitions[i]
             wrapper ==
                CASE category = "methods" ->
                        MMethodCtor(o, definition.name, MethodHandleAt(i),
                                    definition.numParameters, definition.methodAttributes)
                  [] category = "fields" ->
                        MFieldCtor(o, definition.fieldHandle, definition.name,
                                   definition.fieldType, definition.fieldAttributes)
                  [] OTHER ->
                        MPropertyCtor(o, definition.name, definition.getterHandle,
                                      definition.setterHandle, definition.getterAttributes,
                                      definition.setterAttributes)
         IN  Then(AddMember(h, o, category, wrapper), LAMBDA h1 :
                  AddMembers(h1, o, category, definitions, i + 1))

HasCached(c, category) ==
    CASE category = "methods" -> c._hasCachedMethods
      [] category = "fields" -> c._hasCachedFields
      [] OTHER -> c._hasCachedProperties

SetCached(h, o, category) ==
    CASE category = "methods" -> [h EXCEPT !.mclass[o]._hasCachedMethods = TRUE]
      [] category = "fields" -> [h EXCEPT !.mclass[o]._hasCachedFields = TRUE]
      [] OTHER -> [h EXCEPT !.mclass[o]._hasCachedProperties = TRUE]

\* the population that never sets the completion flag
PopulateMembers_Mut(h, o, category, definitions) ==
    IF h.crash # "none" THEN h
    ELSE IF HasCached(h.mclass[o], category) THEN h
    ELSE AddMembers([h EXCEPT !.describeCalls[o][category] = @ + 1],
                    o, category, definitions, 1)

\* MClass::GetMethods / GetFields / GetProperties: definitions is what the
\* describe call of the category answers when it is issued
PopulateMembers(h, o, category, definitions) ==
    IF h.crash # "none" THEN h
    ELSE IF HasCached(h.mclass[o], category) THEN h
    ELSE Then(AddMembers([h EXCEPT !.describeCalls[o][category] = @ + 1],
                         o, category, definitions, 1), LAMBDA h1 :
            IF h1.crash # "none" THEN h1 ELSE SetCached(h1, o, category))

\* the search loop of GetMethod that compares the name alone
RECURSIVE FindMethod_Mut(_, _, _, _)
FindMethod_Mut(methods, name, numParams, i) ==
    IF i > Len(methods) THEN 0
    ELSE IF methods[i]._name = name THEN i
    ELSE FindMethod_Mut(methods, name, numParams, i + 1)

\* the search loop of MClass::GetMethod: the index of the method returned,
\* 0 for nullptr
RECURSIVE FindMethod(_, _, _, _)
FindMethod(methods, name, numParams, i) ==
    IF i > Len(methods) THEN 0
    ELSE IF methods[i]._name = name /\ methods[i]._paramsCount = numParams THEN i
    ELSE FindMethod(methods, name, numParams, i + 1)

\* the search loop of MClass::GetField and MClass::GetProperty
RECURSIVE FindByName(_, _, _)
FindByName(members, name, i) ==
    IF i > Len(members) THEN 0
    ELSE IF members[i]._name = name THEN i
    ELSE FindByName(members, name, i + 1)

DescribeAllowed(o, category) ==
    HasCached(mclass[o], category) \/ describeCalls[o][category] < MaxDescribeCalls

GetMethods(o) ==
    /\ crash = "none" /\ IsLive(o) /\ DescribeAllowed(o, "methods")
    /\ \E answer \in MethodsAnswersFor(mclass[o]) :
        SetHeap(PopulateMembers(Heap, o, "methods", answer))
    /\ lastCall' = [op |-> "GetMethods", obj |-> o, cached |-> mclass[o]._hasCachedMethods]
    /\ UNCHANGED <<assertionsEnabled, assemblyHandles, asmHandle, returned, gatewayVars,
                   ctorVars, excVars, bridgeVars>>

GetMethod(o, name, numParams) ==
    /\ crash = "none" /\ IsLive(o) /\ DescribeAllowed(o, "methods")
    /\ \E answer \in MethodsAnswersFor(mclass[o]) :
        LET h == PopulateMembers(Heap, o, "methods", answer) IN
        /\ SetHeap(h)
        /\ lastCall' = IF h.crash # "none" THEN lastCall
                       ELSE [op |-> "GetMethod", obj |-> o, name |-> name,
                             numParams |-> numParams,
                             result |-> FindMethod(h.mclass[o]._methods, name, numParams, 1)]
    /\ UNCHANGED <<assertionsEnabled, assemblyHandles, asmHandle, returned, gatewayVars,
                   ctorVars, excVars, bridgeVars>>

GetFields(o) ==
    /\ crash = "none" /\ IsLive(o) /\ DescribeAllowed(o, "fields")
    /\ SetHeap(PopulateMembers(Heap, o, "fields", GetClassFields(mclass[o]._handle)))
    /\ lastCall' = [op |-> "GetFields", obj |-> o, cached |-> mclass[o]._hasCachedFields]
    /\ UNCHANGED <<assertionsEnabled, assemblyHandles, asmHandle, returned, gatewayVars,
                   ctorVars, excVars, bridgeVars>>

GetField(o, name) ==
    /\ crash = "none" /\ IsLive(o) /\ DescribeAllowed(o, "fields")
    /\ LET h == PopulateMembers(Heap, o, "fields", GetClassFields(mclass[o]._handle)) IN
        /\ SetHeap(h)
        /\ lastCall' = [op |-> "GetField", obj |-> o, name |-> name,
                        result |-> FindByName(h.mclass[o]._fields, name, 1)]
    /\ UNCHANGED <<assertionsEnabled, assemblyHandles, asmHandle, returned, gatewayVars,
                   ctorVars, excVars, bridgeVars>>

GetProperties(o) ==
    /\ crash = "none" /\ IsLive(o) /\ DescribeAllowed(o, "properties")
    /\ SetHeap(PopulateMembers(Heap, o, "properties", GetClassProperties(mclass[o]._handle)))
    /\ lastCall' = [op |-> "GetProperties", obj |-> o,
                    cached |-> mclass[o]._hasCachedProperties]
    /\ UNCHANGED <<assertionsEnabled, assemblyHandles, asmHandle, returned, gatewayVars,
                   ctorVars, excVars, bridgeVars>>

GetProperty(o, name) ==
    /\ crash = "none" /\ IsLive(o) /\ DescribeAllowed(o, "properties")
    /\ LET h == PopulateMembers(Heap, o, "properties",
                                GetClassProperties(mclass[o]._handle)) IN
        /\ SetHeap(h)
        /\ lastCall' = [op |-> "GetProperty", obj |-> o, name |-> name,
                        result |-> FindByName(h.mclass[o]._properties, name, 1)]
    /\ UNCHANGED <<assertionsEnabled, assemblyHandles, asmHandle, returned, gatewayVars,
                   ctorVars, excVars, bridgeVars>>

\* the heap of a process that has built the class of type handle 1
HeapWithClass ==
    MClassCtor([mclass |-> [o \in Objects |-> NoObject], nextObj |-> 1,
                classHandles |-> <<>>,
                asmClasses |-> [A \in Assemblies |-> <<>>],
                asmHasCachedClasses |-> [A \in Assemblies |-> FALSE],
                describeCalls |-> [o \in Objects |-> [c \in MemberCategories |-> 0]],
                crash |-> "none"],
               NULL, 1, 1, TypeAttributesOf(1))

InitMembersSpec ==
    /\ InitBridge
    /\ InitProcess
    /\ mclass = HeapWithClass.mclass
    /\ nextObj = HeapWithClass.nextObj
    /\ classHandles = HeapWithClass.classHandles
    /\ asmClasses = HeapWithClass.asmClasses
    /\ asmHasCachedClasses = HeapWithClass.asmHasCachedClasses
    /\ describeCalls = HeapWithClass.describeCalls
    /\ returned = [t \in TypeHandles |-> {}]
    /\ InitUnloaded
    /\ InitGateway
    /\ InitCtor
    /\ InitMembers
    /\ InitException

MethodNames == {"Foo", "Bar"}

FieldNames == {"SimpleField", "SimpleStruct", "Missing"}

NextMembers ==
    \/ \E o \in Objects : GetMethods(o)
    \/ \E o \in Objects, name \in MethodNames, numParams \in 0..2 : GetMethod(o, name, numParams)
    \/ \E o \in Objects : GetFields(o)
    \/ \E o \in Objects, name \in FieldNames : GetField(o, name)
    \/ \E o \in Objects : GetProperties(o)
    \/ \E o \in Objects, name \in PropertyNames \cup {"Missing"} : GetProperty(o, name)

SpecMembers == InitMembersSpec /\ [][NextMembers]_vars

MemberSeq(c, category) ==
    CASE category = "methods" -> c._methods
      [] category = "fields" -> c._fields
      [] OTHER -> c._properties

\* C4: single-threaded, each cached collection of a class is fetched at most
\* once: once GetMethods, GetFields or GetProperties has populated its cache,
\* no later step issues a describe call of that category for the class or
\* changes the cached sequence it returns.
C4_FetchedAtMostOnce ==
    /\ [](\A o \in Objects, c \in MemberCategories : describeCalls[o][c] <= 1)
    /\ [][\A o \in Objects, c \in MemberCategories :
            (IsLive(o) /\ HasCached(mclass[o], c)) =>
                /\ describeCalls'[o][c] = describeCalls[o][c]
                /\ MemberSeq(mclass'[o], c) = MemberSeq(mclass[o], c)
                /\ HasCached(mclass'[o], c)]_vars

C4_Witness ==
    /\ lastCall.op = "GetMethods"
    /\ lastCall.cached
    /\ describeCalls[1]["methods"] = 1
    /\ Len(mclass[1]._methods) = 2
    /\ describeCalls[1]["fields"] = 1
    /\ describeCalls[1]["properties"] = 1

MethodMatches(method, name, numParams) ==
    method._name = name /\ method._paramsCount = numParams

\* C9: GetMethod(name, arity) returns the first method of the class, in
\* population order, whose name equals name and whose parameter count equals
\* arity, and nullptr when no method of the class matches both.
C9_GetMethodByNameAndArity ==
    (lastCall.op = "GetMethod") =>
        LET methods == mclass[lastCall.obj]._methods
            r == lastCall.result
        IN  /\ mclass[lastCall.obj]._hasCachedMethods
            /\ r \in 0..Len(methods)
            /\ r # 0 =>
                /\ MethodMatches(methods[r], lastCall.name, lastCall.numParams)
                /\ methods[r]._parentClass = lastCall.obj
                /\ \A j \in 1..(r - 1) :
                    ~MethodMatches(methods[j], lastCall.name, lastCall.numParams)
            /\ r = 0 =>
                \A j \in DOMAIN methods :
                    ~MethodMatches(methods[j], lastCall.name, lastCall.numParams)

\* a method of the right name and another arity is passed over
C9_Witness ==
    /\ lastCall.op = "GetMethod"
    /\ lastCall.name = "Foo"
    /\ lastCall.numParams = 1
    /\ lastCall.result = 2
    /\ mclass[lastCall.obj]._methods[1]._name = "Foo"
    /\ mclass[lastCall.obj]._methods[1]._paramsCount = 0


(***************************************************************************)
(* The exception marshaler.                                                *)
(***************************************************************************)
NullString == [tag |-> "null"]

MString(chars) == [tag |-> "MString", chars |-> chars]

\* the message text of the exception at each level of a chain
Messages == <<"boom", "oops", "fail", "deep", "last">>

MessageAt(k) == Messages[((k - 1) % Len(Messages)) + 1]

\* what varies between managed exception objects: the class and whether
\* the stack trace is set
ExceptionShapes == [klass : {1, 2}, StackTrace : {NullString, MString("at Foo")}]

\* a managed exception object: its class, Message and StackTrace; its
\* InnerException is the next object of the chain
ManagedException(k, shape) ==
    [klass |-> shape.klass, Message |-> MString(MessageAt(k)),
     StackTrace |-> shape.StackTrace]

\* the managed chains: a head and up to MaxInner inner exceptions
ManagedChains ==
    UNION {{[k \in 1..(n + 1) |-> ManagedException(k, shapes[k])] :
                shapes \in [1..(n + 1) -> ExceptionShapes]} : n \in 0..MaxInner}

\* MCore::Object::GetClass: the managed GetObjectType
GetObjectType(obj) == mexc[obj].klass

\* the managed InvokeMethod on the getters of GetClassProperties
InvokeMethod(instance, methodHandle) ==
    CASE methodHandle = 31 -> mexc[instance].Message
      [] methodHandle = 32 -> mexc[instance].StackTrace
      [] methodHandle = 33 -> IF instance < Len(mexc) THEN instance + 1 ELSE NULL
      [] OTHER -> NULL

\* MMethod::Invoke(instance, nullptr, nullptr)
MMethodInvoke(method, instance) == InvokeMethod(instance, method._handle)

\* MUtils::ToString(MString*): the characters, empty for a null string
MUtilsToString(str) == IF str = NullString THEN "" ELSE str.chars

\* exceptionClass->GetProperty(name)->GetGetMethod()->Invoke(exception, nullptr,
\* nullptr); a missing property or getter is a call through nullptr
PropertyGet(h, o, name, exception) ==
    IF h.crash # "none" \/ o = NULL THEN [heap |-> h, value |-> NULL]
    ELSE Then(PopulateMembers(h, o, "properties", GetClassProperties(h.mclass[o]._handle)),
              LAMBDA h1 :
        IF h1.crash # "none" THEN [heap |-> h1, value |-> NULL]
        ELSE Then(FindByName(h1.mclass[o]._properties, name, 1), LAMBDA i :
            IF i = 0 \/ GetGetMethod(h1.mclass[o]._properties[i]) = NoWrapper
            THEN [heap |-> [h1 EXCEPT !.crash = "NullDereference"], value |-> NULL]
            ELSE [heap |-> h1,
                  value |-> MMethodInvoke(GetGetMethod(h1.mclass[o]._properties[i]),
                                          exception)]))

\* MException::MException(exception): the built record and the heap after it
RECURSIVE MExceptionCtor(_, _)
MExceptionCtor(h, exception) ==
    IF h.crash # "none" THEN [heap |-> h, exc |-> NoException]
    ELSE IF assertionsEnabled /\ exception = NULL
         THEN [heap |-> [h EXCEPT !.crash = "ASSERT"], exc |-> NoException]
    ELSE
      Then(GetOrCreateClassOp(h, GetObjectType(exception)), LAMBDA exceptionClass :
      Then(PropertyGet(exceptionClass.heap, exceptionClass.klass, "Message", exception),
           LAMBDA exceptionMsg :
      Then(PropertyGet(exceptionMsg.heap, exceptionClass.klass, "StackTrace", exception),
           LAMBDA exceptionStackTrace :
      Then(PropertyGet(exceptionStackTrace.heap, exceptionClass.klass, "InnerException",
                       exception),
           LAMBDA innerException :
      Then(IF innerException.heap.crash = "none" /\ innerException.value # NULL
           THEN MExceptionCtor(innerException.heap, innerException.value)
           ELSE [heap |-> innerException.heap, exc |-> NoException],
           LAMBDA inner :
        [heap |-> inner.heap,
         exc |-> IF inner.heap.crash # "none" THEN NoException
                 ELSE [tag |-> "MException",
                       Message |-> MUtilsToString(exceptionMsg.value),
                       StackTrace |-> MUtilsToString(exceptionStackTrace.value),
                       InnerException |-> inner.exc]])))))

\* New<MException>(exception) on the head of the managed chain
MarshalException ==
    /\ crash = "none"
    /\ excResult = NoException
    /\ \E r \in {MExceptionCtor(Heap, 1)} :
        /\ SetHeap(r.heap)
        /\ excResult' = r.exc
    /\ UNCHANGED <<assertionsEnabled, assemblyHandles, asmHandle, returned, gatewayVars,
                   ctorVars, memberVars, mexc, bridgeVars>>

\* the exception's assembly is not loaded, loaded, or loaded and enumerated
InitExceptionSpec ==
    /\ InitBridge
    /\ InitProcess
    /\ InitHeap
    /\ InitAssemblies
    /\ InitGateway
    /\ InitCtor
    /\ InitMembers
    /\ mexc \in ManagedChains
    /\ excResult = NoException

NextException ==
    \/ MarshalException
    \/ \E A \in Assemblies : GetClasses(A)

SpecException == InitExceptionSpec /\ [][NextException]_vars

RECURSIVE ChainLength(_)
ChainLength(exc) == IF exc = NoException THEN 0 ELSE 1 + ChainLength(exc.InnerException)

RECURSIVE ChainAt(_, _)
ChainAt(exc, k) == IF k = 1 THEN exc ELSE ChainAt(exc.InnerException, k - 1)

\* the native chain mirrors the managed one, record by record
C10_ChainBuilt ==
    /\ ChainLength(excResult) = Len(mexc)
    /\ \A k \in 1..Len(mexc) :
        LET record == ChainAt(excResult, k) IN
        /\ record.Message = mexc[k].Message.chars
        /\ record.StackTrace =
                IF mexc[k].StackTrace = NullString THEN "" ELSE mexc[k].StackTrace.chars
        /\ (k = Len(mexc)) <=> (record.InnerException = NoException)

\* C10: marshaling a managed exception whose InnerException chain has n
\* levels (ending at a null inner exception) builds a native chain of
\* exactly n nested records after the head; the k-th record carries the
\* Message and StackTrace text of the k-th managed exception and the last
\* record's InnerException is null; the walk ends for every finite chain
\* with the chain built, not with the process aborted.
C10_ChainMarshaled ==
    /\ crash = "none"
    /\ excResult # NoException => C10_ChainBuilt

(***************************************************************************)
(* GC handles.  The managed side keeps the handle table; a weak handle's   *)
(* target is cleared when its referent has been collected.                 *)
(***************************************************************************)
\* every state component outside the bridges starts idle
InitBase ==
    /\ InitProcess
    /\ InitHeap
    /\ InitUnloaded
    /\ InitGateway
    /\ InitCtor
    /\ InitMembers
    /\ InitException

\* the pointer-sized value the managed side hands out for a handle slot
HandleValue(i) == 200 + i

SlotOf(handle) == handle - 200

\* NewGCHandleWeak (managed): the lowest unused slot of the table
FreshSlot == CHOOSE i \in HandleSlots :
                /\ gcHandles[i].state = "unused"
                /\ \A j \in HandleSlots : j < i => gcHandles[j].state # "unused"

\* a GetTarget that answers nullptr for every handle
GCHandleGetTarget_Mut(handle) == NULL

\* MCore::GCHandle::GetTarget: the handle value itself, cast to MObject*
GCHandleGetTarget(handle) == handle

\* MCore::GCHandle::NewWeak(obj, trackResurrection) on a reachable object
NewWeak(obj) ==
    /\ crash = "none"
    /\ obj \in reachable
    /\ \E i \in HandleSlots : gcHandles[i].state = "unused"
    /\ gcHandles' = [gcHandles EXCEPT ![FreshSlot] =
                        [state |-> "allocated", target |-> obj, weak |-> TRUE]]
    /\ lastCreated' = HandleValue(FreshSlot)
    /\ UNCHANGED <<exceptGC, reachable, lastTarget>>

\* the program drops its last strong reference to a managed object
DropReference(obj) ==
    /\ crash = "none"
    /\ obj \in reachable
    /\ reachable' = reachable \ {obj}
    /\ lastCreated' = NULL
    /\ UNCHANGED <<exceptGC, gcHandles, lastTarget>>

\* a managed collection: weak handles of unreachable objects lose their target
ManagedCollect ==
    /\ crash = "none"
    /\ \E i \in HandleSlots :
        gcHandles[i].state = "allocated" /\ gcHandles[i].target \notin reachable \cup {NULL}
    /\ gcHandles' = [i \in HandleSlots |->
                        IF gcHandles[i].state = "allocated" /\ gcHandles[i].weak
                           /\ gcHandles[i].target \notin reachable
                        THEN [gcHandles[i] EXCEPT !.target = NULL]
                        ELSE gcHandles[i]]
    /\ lastCreated' = NULL
    /\ UNCHANGED <<exceptGC, reachable, lastTarget>>

\* MCore::GCHandle::GetTarget(handle) on a handle NewWeak returned
GetTarget(i) ==
    /\ crash = "none"
    /\ gcHandles[i].state = "allocated"
    /\ lastTarget' = [op |-> "GetTarget", handle |-> HandleValue(i),
                      result |-> GCHandleGetTarget(HandleValue(i)),
                      fresh |-> lastCreated = HandleValue(i),
                      referentReachable |-> gcHandles[i].target \in reachable]
    /\ lastCreated' = NULL
    /\ UNCHANGED <<exceptGC, gcHandles, reachable>>

\* MCore::GCHandle::Free(handle)
GCHandleFree(i) ==
    /\ crash = "none"
    /\ gcHandles[i].state = "allocated"
    /\ gcHandles' = [gcHandles EXCEPT ![i] = [state |-> "freed", target |-> NULL,
                                              weak |-> FALSE]]
    /\ lastCreated' = NULL
    /\ UNCHANGED <<exceptGC, reachable, lastTarget>>

InitGCSpec ==
    /\ InitBase
    /\ InitGC
    /\ InitExceptGC

NextGC ==
    \/ \E obj \in ManagedObjects : NewWeak(obj)
    \/ \E obj \in ManagedObjects : DropReference(obj)
    \/ ManagedCollect
    \/ \E i \in HandleSlots : GetTarget(i)
    \/ \E i \in HandleSlots : GCHandleFree(i)

SpecGC == InitGCSpec /\ [][NextGC]_vars

\* C11: GetTarget on a weak handle made by NewWeak for a reachable object
\* returns non-null immediately after the creation; in any later state it
\* returns null only if the referent is no longer reachable; and GetTarget
\* never ends in a crash.
C11_WeakTargetResolves ==
    /\ crash = "none"
    /\ lastTarget # NoTarget =>
        /\ lastTarget.fresh => lastTarget.result # NULL
        /\ lastTarget.result = NULL => ~lastTarget.referentReachable

\* GetTarget right after NewWeak, the referent still reachable
C11_Witness ==
    /\ lastTarget # NoTarget
    /\ lastTarget.fresh
    /\ lastTarget.referentReachable
    /\ lastTarget.result # NULL

(***************************************************************************)
(* Method invocation: MMethod::Invoke and MMethod::InvokeVirtual.          *)
(***************************************************************************)
\* the pointer get_function_pointer answers for "InvokeMethod"
InvokeMethodPointer == 13

\* a slot the caller passes for the managed exception, NULL for nullptr
ExceptionSlot == 1

\* argument arrays: nullptr, no arguments, one argument
ParamArrays ==
    {[tag |-> "nullptr"], [tag |-> "params", values |-> <<>>],
     [tag |-> "params", values |-> <<3>>]}

\* methods to invoke: one that returns, one that throws
InvokedMethods ==
    {MMethodCtor(1, "TestMethod", 51, 0, MMethodAttributes_Public),
     MMethodCtor(1, "Throw", 52, 1, MMethodAttributes_Public)}

InvokeInputs ==
    [kind : {"invoke"}, method : InvokedMethods, instance : {NULL} \cup ManagedObjects,
     params : ParamArrays, exception : {NULL, ExceptionSlot}]

\* InvokeMethod (managed) called with all four arguments: the returned object
\* and what it writes to the exception slot
ManagedInvokeMethod(instance, methodHandle, params, exception) ==
    IF methodHandle = 52
    THEN [result |-> NULL,
          slot |-> IF exception # NULL THEN [tag |-> "MObject", thrownBy |-> methodHandle]
                   ELSE [tag |-> "untouched"]]
    ELSE [result |-> [tag |-> "MObject", of |-> <<instance, methodHandle, params>>],
          slot |-> [tag |-> "untouched"]]

\* CallStaticMethod(InvokeMethodPtr, instance, _handle, params, exception): the
\* cross-boundary call made and its outcome
CallInvokeMethod(instance, methodHandle, params, exception) ==
    LET answer == ManagedInvokeMethod(instance, methodHandle, params, exception) IN
    [op |-> "done",
     calls |-> << [name |-> "InvokeMethod",
                   args |-> <<instance, methodHandle, params, exception>>] >>,
     result |-> answer.result,
     slot |-> answer.slot]

\* MMethod::Invoke(instance, params, exception)
MMethodInvokeOp(method, instance, params, exception) ==
    CallInvokeMethod(instance, method._handle, params, exception)

\* an InvokeVirtual that drops the caller's exception slot
MMethodInvokeVirtualOp_Mut(method, instance, params, exception) ==
    MMethodInvokeOp(method, instance, params, NULL)

\* MMethod::InvokeVirtual(instance, params, exception)
MMethodInvokeVirtualOp(method, instance, params, exception) ==
    MMethodInvokeOp(method, instance, params, exception)

\* the static initializer of InvokeMethodPtr, run by the first Invoke
ResolveInvokeMethodPtr ==
    InvokeMethodPtr' = IF InvokeMethodPtr = NULL THEN InvokeMethodPointer ELSE InvokeMethodPtr

Invoke ==
    /\ crash = "none"
    /\ invokeIn # NoInput
    /\ invokeOut = NoOutcome
    /\ ResolveInvokeMethodPtr
    /\ invokeOut' = MMethodInvokeOp(invokeIn.method, invokeIn.instance, invokeIn.params,
                                    invokeIn.exception)
    /\ UNCHANGED <<exceptInvoke, invokeIn, virtualOut>>

InvokeVirtual ==
    /\ crash = "none"
    /\ invokeIn # NoInput
    /\ virtualOut = NoOutcome
    /\ ResolveInvokeMethodPtr
    /\ virtualOut' = MMethodInvokeVirtualOp(invokeIn.method, invokeIn.instance,
                                            invokeIn.params, invokeIn.exception)
    /\ UNCHANGED <<exceptInvoke, invokeIn, invokeOut>>

InitInvokeSpec ==
    /\ InitBase
    /\ InitExceptInvoke
    /\ invokeIn \in InvokeInputs
    /\ InvokeMethodPtr = NULL
    /\ invokeOut = NoOutcome
    /\ virtualOut = NoOutcome

NextInvoke == Invoke \/ InvokeVirtual

SpecInvoke == InitInvokeSpec /\ [][NextInvoke]_vars

\* C12: for every method, instance, argument array and exception slot,
\* InvokeVirtual issues exactly one cross-boundary InvokeMethod call, with
\* the same instance, method handle, arguments and exception slot as Invoke
\* does, and returns the same result as Invoke.
C12_InvokeVirtualIsInvoke ==
    /\ virtualOut # NoOutcome =>
        /\ Len(virtualOut.calls) = 1
        /\ virtualOut.calls[1] =
            [name |-> "InvokeMethod",
             args |-> <<invokeIn.instance, invokeIn.method._handle, invokeIn.params,
                        invokeIn.exception>>]
    /\ (invokeOut # NoOutcome /\ virtualOut # NoOutcome) => virtualOut = invokeOut

\* both ran for a throwing method with an exception slot and arguments
C12_Witness ==
    /\ invokeOut # NoOutcome
    /\ virtualOut # NoOutcome
    /\ invokeIn.exception # NULL
    /\ invokeIn.params = [tag |-> "params", values |-> <<3>>]
    /\ invokeOut.slot.tag = "MObject"

(***************************************************************************)
(* Invocation thunks: MMethod::GetThunk.                                   *)
(***************************************************************************)
\* GetMethodUnmanagedFunctionPointer (managed): the method's raw callable, or
\* a null pointer
ThunkPointerOf(method) == 30 + method

ThunkAnswers(method) == {NULL, ThunkPointerOf(method)}

\* MMethod::GetThunk: the resolution is made when _cachedThunk is null
ThunkResolves(cached) == cached = NULL

GetThunk(method) ==
    /\ crash = "none"
    /\ thunkCalls[method] < MaxCalls
    /\ thunkCalls' = [thunkCalls EXCEPT ![method] = @ + 1]
    /\ IF ThunkResolves(cachedThunk[method])
       THEN \E answer \in ThunkAnswers(method) :
                /\ cachedThunk' = [cachedThunk EXCEPT ![method] = answer]
                /\ thunkAnswers' = [thunkAnswers EXCEPT ![method] = Append(@, answer)]
       ELSE UNCHANGED <<cachedThunk, thunkAnswers>>
    /\ thunkReturned' = [thunkReturned EXCEPT ![method] = @ \cup {cachedThunk'[method]}]
    /\ UNCHANGED exceptThunk

InitThunkSpec ==
    /\ InitBase
    /\ InitThunk
    /\ InitExceptThunk

NextThunk == \E method \in ThunkMethods : GetThunk(method)

SpecThunk == InitThunkSpec /\ [][NextThunk]_vars

\* C13: for every method, GetThunk resolves the pointer across the boundary
\* at most once over any sequence of GetThunk calls on that method, and
\* every call returns the pointer of that one resolution, whatever value the
\* managed side returned.
C13_ThunkResolvedOnce ==
    \A method \in ThunkMethods :
        /\ Len(thunkAnswers[method]) <= 1
        /\ thunkAnswers[method] # <<>> =>
                thunkReturned[method] \subseteq {thunkAnswers[method][1]}

(***************************************************************************)
(* Instance sizes: MClass::GetInstanceSize and its callers.                *)
(***************************************************************************)
\* the types the managed side knows under their own handle
CanonicalTypes == EnumeratedTypes \cup {ConstructedType}

\* MClass::GetInstanceSize on object o: the heap after it, the size returned
\* and whether NativeSizeOf was called
MClassGetInstanceSize(h, o) ==
    IF h.mclass[o]._size # 0
    THEN [heap |-> h, size |-> h.mclass[o]._size, queried |-> FALSE]
    ELSE LET reported == managedSize[h.mclass[o]._handle] IN
         [heap |-> [h EXCEPT !.mclass[o]._size = reported], size |-> reported,
          queried |-> TRUE]

\* the bookkeeping of one instance size call on a class of the type
RecordSize(handle, r) ==
    /\ sizeCalls' = [sizeCalls EXCEPT ![handle] = @ + 1]
    /\ sizeQueries' = IF r.queried THEN [sizeQueries EXCEPT ![handle] = Append(@, r.size)]
                      ELSE sizeQueries
    /\ sizeReturned' = [sizeReturned EXCEPT ![handle] = @ \cup {r.size}]

GetInstanceSize(o) ==
    /\ crash = "none" /\ IsLive(o)
    /\ sizeCalls[mclass[o]._handle] < MaxCalls
    /\ \E r \in {MClassGetInstanceSize(Heap, o)} :
        /\ SetHeap(r.heap)
        /\ RecordSize(mclass[o]._handle, r)
    /\ UNCHANGED <<assertionsEnabled, assemblyHandles, asmHandle, returned, gatewayVars,
                   ctorVars, memberVars, excVars, bridgesExceptSize, managedSize>>

\* MCore::GC::WriteValue(dst, src, count, klass): the size of klass, then memcpy
GCWriteValue(o) ==
    /\ crash = "none" /\ IsLive(o)
    /\ sizeCalls[mclass[o]._handle] < MaxCalls
    /\ \E r \in {MClassGetInstanceSize(Heap, o)} :
        /\ SetHeap(r.heap)
        /\ RecordSize(mclass[o]._handle, r)
    /\ UNCHANGED <<assertionsEnabled, assemblyHandles, asmHandle, returned, gatewayVars,
                   ctorVars, memberVars, excVars, bridgesExceptSize, managedSize>>

\* MCore::Type::GetSize(type): GetOrCreateClass(type)->GetInstanceSize()
TypeGetSize(type) ==
    /\ crash = "none"
    /\ HasRoomFor(AllocatedBy(type))
    /\ sizeCalls[CanonicalHandle(type)] < MaxCalls
    /\ \E c \in {GetOrCreateClassOp(Heap, type)} :
        IF c.heap.crash # "none"
        THEN /\ SetHeap(c.heap)
             /\ UNCHANGED <<sizeCalls, sizeQueries, sizeReturned>>
        ELSE \E r \in {MClassGetInstanceSize(c.heap, c.klass)} :
                /\ SetHeap(r.heap)
                /\ RecordSize(CanonicalHandle(type), r)
    /\ UNCHANGED <<assertionsEnabled, assemblyHandles, asmHandle, returned, gatewayVars,
                   ctorVars, memberVars, excVars, bridgesExceptSize, managedSize>>

InitSizeSpec ==
    /\ InitProcess
    /\ InitHeap
    /\ InitAssemblies
    /\ InitGateway
    /\ InitCtor
    /\ InitMembers
    /\ InitException
    /\ InitExceptSize
    /\ managedSize \in [CanonicalTypes -> {0} \cup {InstanceSizeOf(t) : t \in CanonicalTypes}]
    /\ \A t \in CanonicalTypes : managedSize[t] \in {0, InstanceSizeOf(t)}
    /\ sizeCalls = [handle \in CanonicalTypes |-> 0]
    /\ sizeQueries = [handle \in CanonicalTypes |-> <<>>]
    /\ sizeReturned = [handle \in CanonicalTypes |-> {}]

NextSize ==
    \/ \E type \in TypeHandles : TypeGetSize(type)
    \/ \E o \in Objects : GetInstanceSize(o)
    \/ \E o \in Objects : GCWriteValue(o)

SpecSize == InitSizeSpec /\ [][NextSize]_vars

\* C14: for every class, the instance size is queried from the managed side
\* (NativeSizeOf) at most once over any sequence of GetInstanceSize,
\* Type::GetSize and GC::WriteValue calls on that class, whatever size the
\* managed side reports, and every call returns that first reported size.
C14_SizeQueriedOnce ==
    \A handle \in CanonicalTypes :
        /\ Len(sizeQueries[handle]) <= 1
        /\ sizeQueries[handle] # <<>> =>
                sizeReturned[handle] \subseteq {sizeQueries[handle][1]}

\* C15: resolving a name the managed bootstrap type does not export (the
\* lookup returns a non-zero code) is fatal: the failure is logged at Fatal
\* level, and no pointer for that name is stored in the function-pointer
\* cache or handed back to a caller.
C15_UnknownNameIsFatal ==
    \A n \in Names \ ExportedNames :
        /\ lookups[n] >= 1 => n \in fatalLogged
        /\ ~DictHas(CachedFunctions, n)
        /\ resolved[n] = {}

(***************************************************************************)
(* The host backend: MCore::LoadEngine, InitHostfxr, MCore::UnloadEngine   *)
(* and ShutdownHostfxr.                                                    *)
(***************************************************************************)
LogEntry(level, step) == [level |-> level, step |-> step]

\* what one run of InitHostfxr leaves behind: its return value (none when the
\* process ended inside it), the entries it logged, the steps that failed,
\* the libraries it left open and how the process ended
HostOutcome(result, log, failed, opened, ended) ==
    [result |-> result, log |-> log, failed |-> failed, opened |-> opened,
     crash |-> ended]

\* LOG(Fatal, ...) followed by return true: the process ends in the log call
\* on the main thread, and the function returns true on any other
LogFatalReturnTrue(log, step, failed, opened) ==
    LET entries == Append(log, LogEntry("Fatal", step))
    IN  {HostOutcome("failure", entries, failed, opened, "none"),
         HostOutcome("none", entries, failed, opened, "Fatal")}

\* the hostfxr exports InitHostfxr calls or tests
HostfxrEntryPoints ==
    {"hostfxr_initialize_for_dotnet_command_line", "hostfxr_get_runtime_delegate",
     "hostfxr_close", "hostfxr_run_app"}

\* a call through an export: when GetProcAddress left the pointer null the
\* call is undefined, the process stops there or goes on as if it returned
CallExport(exports, export, log, failed, opened, returns) ==
    IF export \in exports
    THEN returns
    ELSE returns \cup {HostOutcome("none", log, failed, opened, "NullDereference")}

\* InitHostfxr of the hostfxr host once the library is loaded and the exports
\* in exports were found
InitHostfxrLoaded(exports) ==
    LET log == <<LogEntry("Info", "get_hostfxr_path")>>
        opened == {"hostfxr"}
        missing == IF exports = HostfxrEntryPoints THEN {} ELSE {"GetProcAddress"}
        Closed(failed, returns) ==
            CallExport(exports, "hostfxr_close", log, failed, opened, returns)
        Failing(step) ==
            Closed(missing \cup {step},
                   LogFatalReturnTrue(log, step, missing \cup {step}, opened))
    IN  IF "hostfxr_get_runtime_delegate" \notin exports \/ "hostfxr_run_app" \notin exports
        THEN LogFatalReturnTrue(log, "GetProcAddress", missing, opened)
        ELSE CallExport(exports, "hostfxr_initialize_for_dotnet_command_line",
                        log, missing, opened,
                        Failing("hostfxr_initialize_for_dotnet_command_line")
                        \cup Failing("hostfxr_get_runtime_delegate")
                        \cup Closed(missing,
                                    {HostOutcome("success", log, missing, opened, "none")}))

\* InitHostfxr of the hostfxr host
InitHostfxrCoreCLR ==
    LogFatalReturnTrue(<<LogEntry("Error", "get_hostfxr_path")>>, "get_hostfxr_path",
                       {"get_hostfxr_path"}, {})
    \cup LogFatalReturnTrue(<<LogEntry("Info", "get_hostfxr_path")>>, "LoadLibrary",
                            {"LoadLibrary"}, {})
    \cup UNION {InitHostfxrLoaded(exports) : exports \in SUBSET HostfxrEntryPoints}

\* InitHostfxr of the Mono host from the start of the VM on
InitHostfxrMonoVM(log, opened) ==
    LogFatalReturnTrue(log, "mono_jit_init_version", {"mono_jit_init_version"}, opened)
    \cup {HostOutcome("success", Append(log, LogEntry("Info", "mono_jit_init_version")),
                      {}, opened, "none")}

\* InitHostfxr of the Mono host; aot when USE_MONO_AOT_MODULE is defined
InitHostfxrMono(aot) ==
    IF aot
    THEN LET loading == <<LogEntry("Info", "AOT LoadLibrary")>>
         IN  {HostOutcome("failure", Append(loading, LogEntry("Error", "AOT LoadLibrary")),
                          {"AOT LoadLibrary"}, {}, "none"),
              HostOutcome("failure", Append(loading, LogEntry("Error", "AOT GetProcAddress")),
                          {"AOT GetProcAddress"}, {"aot"}, "none")}
             \cup InitHostfxrMonoVM(Append(loading, LogEntry("Info", "AOT module")), {"aot"})
    ELSE InitHostfxrMonoVM(<<>>, {})

InitHostfxr(backend) ==
    IF backend = "CoreCLR" THEN InitHostfxrCoreCLR
    ELSE InitHostfxrMono(backend = "MonoAOT")

\* the files LoadEngine looks for
EngineFiles == <<"FlaxEngine.CSharp.dll", "FlaxEngine.CSharp.runtimeconfig.json">>

\* the LOG(Fatal, ...) entries of LoadEngine for the files that are missing
MissingFileEntries(missing) ==
    SelectSeq([i \in 1..2 |-> LogEntry("Fatal", EngineFiles[i])],
              LAMBDA e : e.step \in missing)

\* CallStaticMethodByName for the names in turn: the hostfxr host resolves and
\* calls each of them; GetStaticMethodPointer of the Mono host is
\* MISSING_CODE and returns nullptr, so that the call through it is undefined
CallStaticMethodsByName(backend, names) ==
    IF backend = "CoreCLR"
    THEN {[called |-> names, crash |-> "none"]}
    ELSE {[called |-> names, crash |-> "none"]}
         \cup {[called |-> SubSeq(names, 1, k - 1), crash |-> ended] :
                    k \in 1..Len(names), ended \in {"Fatal", "NullDereference"}}

LoadEngine ==
    /\ crash = "none"
    /\ hostResult = "none"
    /\ hostLog = <<>>
    /\ \E missing \in SUBSET {EngineFiles[1], EngineFiles[2]} :
        LET entries == MissingFileEntries(missing)
        IN  \/ \E k \in 1..Len(entries) :
                /\ hostLog' = SubSeq(entries, 1, k)
                /\ crash' = "Fatal"
                /\ UNCHANGED <<hostFailed, hostResult, openLibraries, managedCalls,
                               MRootDomain>>
            \/ \E init \in InitHostfxr(hostBackend) :
                /\ hostFailed' = init.failed
                /\ hostResult' = init.result
                /\ openLibraries' = init.opened
                /\ IF init.result = "success"
                   THEN \E call \in CallStaticMethodsByName(hostBackend,
                                <<"Init", "RegisterNativeLibrary", "GetRuntimeInformation">>) :
                            /\ managedCalls' = call.called
                            /\ crash' = call.crash
                            /\ MRootDomain' = (Len(call.called) >= 2)
                            /\ hostLog' = IF call.crash = "none"
                                          THEN Append(entries \o init.log,
                                                      LogEntry("Info", "GetRuntimeInformation"))
                                          ELSE entries \o init.log
                   ELSE /\ crash' = init.crash
                        /\ hostLog' = entries \o init.log
                        /\ UNCHANGED <<managedCalls, MRootDomain>>
    /\ UNCHANGED <<assertionsEnabled, classVars, gatewayVars, ctorVars, memberVars,
                   excVars, bridgesExceptHost, hostBackend, shutdownDone>>

\* ShutdownHostfxr: the libraries still open afterwards.  The hostfxr host's
\* body is empty; the Mono host frees MonoAotModuleHandle under
\* USE_MONO_AOT_MODULE
ShutdownHostfxr(backend, opened) ==
    IF backend = "MonoAOT" THEN opened \ {"aot"} ELSE opened

UnloadEngine ==
    /\ crash = "none"
    /\ MRootDomain
    /\ \E call \in CallStaticMethodsByName(hostBackend, <<"Exit">>) :
        /\ managedCalls' = managedCalls \o call.called
        /\ crash' = call.crash
        /\ IF call.crash = "none"
           THEN /\ MRootDomain' = FALSE
                /\ openLibraries' = ShutdownHostfxr(hostBackend, openLibraries)
                /\ shutdownDone' = TRUE
           ELSE UNCHANGED <<MRootDomain, openLibraries, shutdownDone>>
    /\ UNCHANGED <<assertionsEnabled, classVars, gatewayVars, ctorVars, memberVars,
                   excVars, bridgesExceptHost, hostBackend, hostLog, hostFailed,
                   hostResult>>

InitHostSpec ==
    /\ InitBase
    /\ InitExceptHost
    /\ hostBackend \in HostBackends
    /\ HostFresh

NextHost == LoadEngine \/ UnloadEngine

SpecHost == InitHostSpec /\ [][NextHost]_vars

\* the steps of InitHostfxr a Fatal entry was logged for
FatalSteps == {hostLog[i].step : i \in {j \in DOMAIN hostLog : hostLog[j].level = "Fatal"}}

\* C16: InitHostfxr reports success only if every step succeeded; every
\* failing step is logged as a Fatal failure and ends in the failure result,
\* after which LoadEngine issues no managed call.
C16_InitFailureIsFatal ==
    /\ hostResult = "success" => hostFailed = {}
    /\ hostFailed # {} =>
        /\ hostFailed \cap FatalSteps # {}
        /\ hostResult # "none" => hostResult = "failure"
    /\ hostResult = "failure" => managedCalls = <<>>

\* C17: after UnloadEngine has run ShutdownHostfxr following a successful
\* InitHostfxr, every native library InitHostfxr opened (the hostfxr library,
\* the Mono AOT module) has been released.
C17_LibrariesReleased ==
    (shutdownDone /\ hostResult = "success") => openLibraries = {}

(***************************************************************************)
(* Class destruction: MClass::~MClass and MProperty::~MProperty on classes *)
(* whose member caches have been populated.                                *)
(***************************************************************************)
\* classes are made while at most MaxDtorObjects have been allocated
NextDtor ==
    \/ \E typeHandle \in TypeHandles :
        GetOrCreateClass(typeHandle) /\ nextObj' <= MaxDtorObjects + 1
    \/ \E A \in Assemblies : GetClasses(A) /\ nextObj' <= MaxDtorObjects + 1
    \/ \E o \in Objects : GetProperties(o)
    \/ \E o \in Objects : DestroyClass(o)

SpecDtor == Init /\ [][NextDtor]_vars

\* the member wrappers class object o with record c owns
OwnedWrappers(c, o) ==
    {WrapperId(o, "methods", i, "self") : i \in DOMAIN c._methods}
    \cup {WrapperId(o, "fields", i, "self") : i \in DOMAIN c._fields}
    \cup {WrapperId(o, "properties", i, "self") : i \in DOMAIN c._properties}
    \cup {WrapperId(o, "properties", i, "get") :
            i \in {j \in DOMAIN c._properties : c._properties[j]._getMethod # NoWrapper}}
    \cup {WrapperId(o, "properties", i, "set") :
            i \in {j \in DOMAIN c._properties : c._properties[j]._setMethod # NoWrapper}}

\* C18: destroying a class destroys every cached method, field, property
\* (with both of its accessor methods) and event wrapper of the class exactly
\* once and removes the class's handle from classHandles, so that no later
\* classHandles lookup returns the destroyed wrapper.
C18_ClassDestroyed ==
    /\ [](\A i \in DOMAIN classHandles : IsLive(classHandles[i][2]))
    /\ [][\A o \in Objects :
            (IsLive(o) /\ mclass'[o] = Destroyed) =>
                /\ \A w \in OwnedWrappers(mclass[o], o) : CopiesIn(w, deleted') = 1
                /\ BucketsOf(classHandles', mclass[o]._handle, o) = {}]_vars

(***************************************************************************)
(* Exception destruction: Delete on the head of a marshaled chain.         *)
(***************************************************************************)
\* the destructor that leaves InnerException alone
RECURSIVE MExceptionDtor_Mut(_, _)
MExceptionDtor_Mut(exc, position) == <<>>

\* MException::~MException of the record at position of the chain: the
\* positions of the records it frees, in order.  Delete(InnerException) runs
\* the inner record's destructor and then frees the record
RECURSIVE MExceptionDtor(_, _)
MExceptionDtor(exc, position) ==
    IF exc.InnerException # NoException
    THEN Append(MExceptionDtor(exc.InnerException, position + 1), position + 1)
    ELSE <<>>

\* Delete(head) on the chain MarshalException built
DeleteException ==
    /\ crash = "none"
    /\ excResult # NoException
    /\ excFreed = EmptyBag
    /\ excFreed' = BagOf(Append(MExceptionDtor(excResult, 1), 1))
    /\ UNCHANGED <<baseVars, bridgesExceptExcDtor>>

NextExcDtor ==
    \/ MarshalException
    \/ \E A \in Assemblies : GetClasses(A)
    \/ DeleteException

SpecExcDtor == InitExceptionSpec /\ [][NextExcDtor]_vars

\* C19: destroying the head record of a chain of any length destroys every
\* record of the chain exactly once and leaves none of them live.
C19_ChainDestroyedOnce ==
    excFreed # EmptyBag =>
        /\ BagToSet(excFreed) = 1..ChainLength(excResult)
        /\ \A k \in 1..ChainLength(excResult) : CopiesIn(k, excFreed) = 1

C19_Witness ==
    /\ ChainLength(excResult) = 3
    /\ BagToSet(excFreed) = {1, 2, 3}

(***************************************************************************)
(* MAssembly::GetClasses called from several threads, statement by         *)
(* statement.  _hasCachedClasses is a plain member read before _locker is  *)
(* taken: that read races with the write under the lock, so a thread that  *)
(* has not acquired _locker since the write may see the flag, and the map  *)
(* behind it, in any state the writer's stores passed through.             *)
(***************************************************************************)
RacedAssembly == 1

ReturnedView(flag, classes) == [tag |-> "returned", flag |-> flag, classes |-> classes]

\* the states of _classes a thread may see when it reads it without having
\* synchronized with the thread that filled it
ViewsOfClasses(t) ==
    IF t \in synchronized
    THEN {asmClasses[RacedAssembly]}
    ELSE {SubSeq(asmClasses[RacedAssembly], 1, n) : n \in 0..Len(asmClasses[RacedAssembly])}

\* the call enters the function
CallGetClasses(t) ==
    /\ crash = "none"
    /\ threadPc[t] = "idle"
    /\ threadPc' = [threadPc EXCEPT ![t] = "check"]
    /\ observed' = [observed EXCEPT ![t] = NoView]
    /\ UNCHANGED <<baseVars, bridgesExceptRace, locker, loopIndex, enumerations, synchronized>>

\* if (_hasCachedClasses || !IsLoaded()) return _classes;
CheckUnlocked(t) ==
    /\ crash = "none"
    /\ threadPc[t] = "check"
    /\ \/ /\ asmHandle[RacedAssembly] = NULL
          /\ threadPc' = [threadPc EXCEPT ![t] = "idle"]
          /\ observed' = [observed EXCEPT ![t] =
                            ReturnedView(FALSE, asmClasses[RacedAssembly])]
       \/ /\ asmHandle[RacedAssembly] # NULL
          /\ asmHasCachedClasses[RacedAssembly]
          /\ \E view \in ViewsOfClasses(t) :
                observed' = [observed EXCEPT ![t] = ReturnedView(TRUE, view)]
          /\ threadPc' = [threadPc EXCEPT ![t] = "idle"]
       \/ /\ asmHandle[RacedAssembly] # NULL
          /\ ~asmHasCachedClasses[RacedAssembly] \/ t \notin synchronized
          /\ threadPc' = [threadPc EXCEPT ![t] = "lock"]
          /\ UNCHANGED observed
    /\ UNCHANGED <<baseVars, bridgesExceptRace, locker, loopIndex, enumerations, synchronized>>

\* ScopeLock lock(_locker);
Lock(t) ==
    /\ crash = "none"
    /\ threadPc[t] = "lock"
    /\ locker = NULL
    /\ locker' = t
    /\ threadPc' = [threadPc EXCEPT ![t] = "locked"]
    /\ synchronized' = IF asmHasCachedClasses[RacedAssembly]
                       THEN synchronized \cup {t} ELSE synchronized
    /\ UNCHANGED <<baseVars, bridgesExceptRace, loopIndex, enumerations, observed>>

\* if (_hasCachedClasses) return _classes; ASSERT(_classes.IsEmpty()); and
\* the GetManagedClasses call
CheckLocked(t) ==
    /\ crash = "none"
    /\ threadPc[t] = "locked"
    /\ IF asmHasCachedClasses[RacedAssembly]
       THEN /\ observed' = [observed EXCEPT ![t] =
                                ReturnedView(TRUE, asmClasses[RacedAssembly])]
            /\ threadPc' = [threadPc EXCEPT ![t] = "idle"]
            /\ locker' = NULL
            /\ UNCHANGED <<crash, loopIndex, enumerations>>
       ELSE IF assertionsEnabled /\ asmClasses[RacedAssembly] # <<>>
       THEN /\ crash' = "ASSERT"
            /\ UNCHANGED <<observed, threadPc, locker, loopIndex, enumerations>>
       ELSE /\ enumerations' = enumerations + 1
            /\ loopIndex' = 1
            /\ threadPc' = [threadPc EXCEPT ![t] = "loop"]
            /\ UNCHANGED <<crash, observed, locker>>
    /\ UNCHANGED <<assertionsEnabled, classVars, gatewayVars, ctorVars, memberVars,
                   excVars, bridgesExceptRace, synchronized>>

\* one turn of the loop: New<MClass>(...) and _classes.Add(...)
InsertClass(t) ==
    /\ crash = "none"
    /\ threadPc[t] = "loop"
    /\ loopIndex <= Len(GetManagedClasses(asmHandle[RacedAssembly]))
    /\ nextObj <= MaxObjects
    /\ LET managedClass == GetManagedClasses(asmHandle[RacedAssembly])[loopIndex] IN
       \E h1 \in {MClassCtor(Heap, RacedAssembly, managedClass.typeHandle,
                             managedClass.fullname, managedClass.typeAttributes)} :
            SetHeap(ClassesAdd(h1, RacedAssembly, managedClass.fullname, nextObj))
    /\ loopIndex' = loopIndex + 1
    /\ UNCHANGED <<assertionsEnabled, assemblyHandles, asmHandle, returned, gatewayVars,
                   ctorVars, memberVars, excVars, bridgesExceptRace, threadPc, locker,
                   enumerations, synchronized, observed>>

\* _hasCachedClasses = true; return _classes; and the lock's release
SetCachedClasses(t) ==
    /\ crash = "none"
    /\ threadPc[t] = "loop"
    /\ loopIndex > Len(GetManagedClasses(asmHandle[RacedAssembly]))
    /\ asmHasCachedClasses' = [asmHasCachedClasses EXCEPT ![RacedAssembly] = TRUE]
    /\ synchronized' = synchronized \cup {t}
    /\ observed' = [observed EXCEPT ![t] = ReturnedView(TRUE, asmClasses[RacedAssembly])]
    /\ threadPc' = [threadPc EXCEPT ![t] = "idle"]
    /\ locker' = NULL
    /\ UNCHANGED <<processVars, mclass, nextObj, classHandles, assemblyHandles, asmHandle,
                   asmClasses, returned, describeCalls, gatewayVars, ctorVars, memberVars,
                   excVars, bridgesExceptRace, loopIndex, enumerations>>

InitRaceSpec ==
    /\ InitExceptRace
    /\ InitRace
    /\ InitProcess
    /\ InitHeap
    /\ asmHandle = [A \in Assemblies |-> AssemblyHandleOf(A)]
    /\ assemblyHandles = [i \in 1..1 |-> <<AssemblyHandleOf(RacedAssembly), RacedAssembly>>]
    /\ InitGateway
    /\ InitCtor
    /\ InitMembers
    /\ InitException

NextRace ==
    \E t \in Threads :
        \/ CallGetClasses(t)
        \/ CheckUnlocked(t)
        \/ Lock(t)
        \/ CheckLocked(t)
        \/ InsertClass(t)
        \/ SetCachedClasses(t)

SpecRace == InitRaceSpec /\ [][NextRace]_vars

TimesFreed(b) ==
    Cardinality({i \in DOMAIN describeBuffers.freed : describeBuffers.freed[i] = b})

\* C21: every string buffer (name, fullname, namespace_) handed out by a
\* describe call of a GetOrCreateClass call that misses classHandles has
\* been released exactly once when the call returns, the buffers of the first
\* describe call included when the call is issued again for a handle that
\* differs from the queried one.
C21_BuffersReleasedOnce ==
    \A b \in describeBuffers.allocated : TimesFreed(b) = 1

\* C22: when GetOrCreateClass creates a class that has an owning assembly,
\* it inserts the class into that assembly's _classes only if the map is
\* already populated; when it is not, the call neither inserts into the map
\* nor populates it.
C22_InsertOnlyIfPopulated ==
    [][\A t \in TypeHandles : \A klass \in returned'[t] \ returned[t] :
            (klass >= nextObj /\ mclass'[klass]._assembly # NULL) =>
                LET A == mclass'[klass]._assembly IN
                IF asmHasCachedClasses[A]
                THEN BucketsOf(asmClasses'[A], mclass'[klass]._fullname, klass) # {}
                ELSE /\ asmClasses'[A] = asmClasses[A]
                     /\ ~asmHasCachedClasses'[A]]_vars

(***************************************************************************)
(* Assembly wrappers: MAssembly::LoadCorlib, LoadImage and UnloadImage.    *)
(***************************************************************************)
\* the assembly handles the managed side may answer a load with; NULL when
\* the image is invalid or the assembly is unknown
LoadAnswers == {NULL, AssemblyHandleOf(1), AssemblyHandleOf(2)}

\* assemblyHandles.Add(_handle, this)
AssemblyHandlesAdd(d, handle, A) ==
    IF assertionsEnabled /\ DictHas(d, handle)
    THEN [crash |-> "ASSERT", map |-> d]
    ELSE [crash |-> "none", map |-> DictAdd(d, handle, A)]

\* MAssembly::UnloadImage on the handle and the map
UnloadImageOp(handle, d) ==
    IF handle # NULL
    THEN [handle |-> NULL, map |-> DictRemove(d, handle)]
    ELSE [handle |-> handle, map |-> d]

\* MAssembly::LoadImage(assemblyPath, nativePath); handle is what
\* LoadAssemblyImage returns
LoadImage(A, handle) ==
    /\ crash = "none"
    /\ loadCalls < MaxLoads
    /\ loadCalls' = loadCalls + 1
    /\ IF handle = NULL
       THEN /\ asmHandle' = [asmHandle EXCEPT ![A] = NULL]
            /\ lastLoad' = [op |-> "LoadImage", assembly |-> A, handle |-> handle,
                            result |-> TRUE]
            /\ UNCHANGED <<assemblyHandles, asmHasCachedClasses, crash>>
       ELSE \E added \in {AssemblyHandlesAdd(assemblyHandles, handle, A)} :
            /\ asmHandle' = [asmHandle EXCEPT ![A] = handle]
            /\ assemblyHandles' = added.map
            /\ crash' = added.crash
            /\ asmHasCachedClasses' =
                    IF added.crash = "none"
                    THEN [asmHasCachedClasses EXCEPT ![A] = FALSE]
                    ELSE asmHasCachedClasses
            /\ lastLoad' = IF added.crash = "none"
                           THEN [op |-> "LoadImage", assembly |-> A, handle |-> handle,
                                 result |-> FALSE]
                           ELSE lastLoad
    /\ UNCHANGED <<assertionsEnabled, mclass, nextObj, classHandles, asmClasses, returned,
                   describeCalls, gatewayVars, ctorVars, memberVars, excVars,
                   bridgesExceptAsm, asmIsLoaded>>

\* MAssembly::LoadCorlib; handle is what GetAssemblyByName returns.  Unload()
\* of a wrapper that is not loaded returns at once or unloads the image
\* (unloads); OnLoaded sets the loaded flag
LoadCorlib(A, handle) ==
    /\ crash = "none"
    /\ loadCalls < MaxLoads
    /\ loadCalls' = loadCalls + 1
    /\ IF asmIsLoaded[A]
       THEN /\ lastLoad' = [op |-> "LoadCorlib", assembly |-> A, handle |-> asmHandle[A],
                            result |-> FALSE]
            /\ UNCHANGED <<asmHandle, assemblyHandles, asmHasCachedClasses, crash,
                           asmIsLoaded>>
       ELSE \E unloads \in BOOLEAN :
            \E unloaded \in {IF unloads THEN UnloadImageOp(asmHandle[A], assemblyHandles)
                             ELSE [handle |-> asmHandle[A], map |-> assemblyHandles]} :
            IF handle = NULL
            THEN /\ asmHandle' = [asmHandle EXCEPT ![A] = NULL]
                 /\ assemblyHandles' = unloaded.map
                 /\ lastLoad' = [op |-> "LoadCorlib", assembly |-> A, handle |-> handle,
                                 result |-> TRUE]
                 /\ UNCHANGED <<asmHasCachedClasses, crash, asmIsLoaded>>
            ELSE \E added \in {AssemblyHandlesAdd(unloaded.map, handle, A)} :
                 /\ asmHandle' = [asmHandle EXCEPT ![A] = handle]
                 /\ assemblyHandles' = added.map
                 /\ crash' = added.crash
                 /\ asmHasCachedClasses' = [asmHasCachedClasses EXCEPT ![A] = FALSE]
                 /\ asmIsLoaded' = IF added.crash = "none"
                                   THEN [asmIsLoaded EXCEPT ![A] = TRUE] ELSE asmIsLoaded
                 /\ lastLoad' = IF added.crash = "none"
                                THEN [op |-> "LoadCorlib", assembly |-> A,
                                      handle |-> handle, result |-> FALSE]
                                ELSE lastLoad
    /\ UNCHANGED <<assertionsEnabled, mclass, nextObj, classHandles, asmClasses, returned,
                   describeCalls, gatewayVars, ctorVars, memberVars, excVars,
                   bridgesExceptAsm>>

\* MAssembly::UnloadImage(isReloading)
UnloadImage(A) ==
    /\ crash = "none"
    /\ \E unloaded \in {UnloadImageOp(asmHandle[A], assemblyHandles)} :
        /\ asmHandle' = [asmHandle EXCEPT ![A] = unloaded.handle]
        /\ assemblyHandles' = unloaded.map
    /\ UNCHANGED <<processVars, mclass, nextObj, classHandles, asmHasCachedClasses,
                   asmClasses, returned, describeCalls, gatewayVars, ctorVars, memberVars,
                   excVars, bridgesExceptAsm, asmVars>>

InitAsmSpec ==
    /\ InitBase
    /\ InitBridge

NextAsm ==
    \E A \in Assemblies :
        \/ \E handle \in LoadAnswers : LoadImage(A, handle)
        \/ \E handle \in LoadAnswers : LoadCorlib(A, handle)
        \/ UnloadImage(A)

SpecAsm == InitAsmSpec /\ [][NextAsm]_vars

\* C23: after any sequence of LoadImage, LoadCorlib and UnloadImage calls,
\* assemblyHandles contains an entry h -> A exactly when wrapper A holds the
\* non-null handle h, with one entry per handle; a load that yields a null
\* handle registers nothing and reports failure, and no call ends in a
\* failed assertion.
C23_OneWrapperPerHandle ==
    /\ crash = "none"
    /\ \A i \in DOMAIN assemblyHandles :
        asmHandle[assemblyHandles[i][2]] = assemblyHandles[i][1]
    /\ \A A \in Assemblies :
        asmHandle[A] # NULL =>
            Cardinality({i \in DOMAIN assemblyHandles :
                            assemblyHandles[i][1] = asmHandle[A]}) = 1
    /\ (lastLoad # NoLoad /\ lastLoad.handle = NULL) => lastLoad.result

(***************************************************************************)
(* The attribute and event queries that are not implemented for the .NET   *)
(* host: they answer from the wrapper alone.                               *)
(***************************************************************************)
\* what a query hands back: a bool, a pointer, an array or an integer, and
\* the number of managed calls it made
Answer(op, kind, bool, pointer, array, number, issued) ==
    [op |-> op, kind |-> kind, bool |-> bool, pointer |-> pointer, array |-> array,
     number |-> number, calls |-> issued]

\* GetAttributes that fetches one attribute object from the managed side
MemberGetAttributes_Mut(cached, array) ==
    IF cached THEN [array |-> array, calls |-> 0]
    ELSE [array |-> Append(array, 1), calls |-> 1]

\* MField/MMethod/MProperty/MEvent::GetAttributes on the wrapper's flag and
\* array: the array as it is
MemberGetAttributes(cached, array) ==
    IF cached THEN [array |-> array, calls |-> 0]
    ELSE [array |-> array, calls |-> 0]

\* HasAttribute(monoClass) and HasAttribute()
HasAttribute(kind, withClass) ==
    /\ lastQuery' = Answer(IF withClass THEN "HasAttribute(class)" ELSE "HasAttribute()",
                           kind, FALSE, NULL, <<>>, 0, 0)
    /\ UNCHANGED <<baseVars, bridgesExceptStub, hasCachedAttributes, memberAttributes,
                   hasCachedEvents, classEvents>>

GetAttribute(kind) ==
    /\ lastQuery' = Answer("GetAttribute", kind, FALSE, NULL, <<>>, 0, 0)
    /\ UNCHANGED <<baseVars, bridgesExceptStub, hasCachedAttributes, memberAttributes,
                   hasCachedEvents, classEvents>>

GetAttributes(kind) ==
    /\ \E got \in {MemberGetAttributes(hasCachedAttributes[kind], memberAttributes[kind])} :
        /\ memberAttributes' = [memberAttributes EXCEPT ![kind] = got.array]
        /\ lastQuery' = Answer("GetAttributes", kind, FALSE, NULL, got.array, 0, got.calls)
    /\ hasCachedAttributes' = [hasCachedAttributes EXCEPT ![kind] = TRUE]
    /\ UNCHANGED <<baseVars, bridgesExceptStub, hasCachedEvents, classEvents>>

\* MClass::GetEvents
GetEvents ==
    /\ hasCachedEvents' = TRUE
    /\ lastQuery' = Answer("GetEvents", "MClass", FALSE, NULL, classEvents, 0, 0)
    /\ UNCHANGED <<baseVars, bridgesExceptStub, hasCachedAttributes, memberAttributes, classEvents>>

\* MEvent::GetAddMethod and MEvent::GetRemoveMethod
GetAddRemoveMethod(add) ==
    /\ lastQuery' = Answer(IF add THEN "GetAddMethod" ELSE "GetRemoveMethod", "MEvent",
                           FALSE, NULL, <<>>, 0, 0)
    /\ UNCHANGED <<baseVars, bridgesExceptStub, hasCachedAttributes, memberAttributes,
                   hasCachedEvents, classEvents>>

\* MISSING_CODE that ends the process
MISSING_CODE_Mut(ended) == IF ended = "none" THEN "Fatal" ELSE ended

\* MISSING_CODE(info): reports the placeholder and returns to it
MISSING_CODE(ended) == ended

\* the placeholders that start with MISSING_CODE and return 0 or nullptr
MissingCodeQueries ==
    {<<"GetOffset", "MField">>, <<"GetValueBoxed", "MField">>,
     <<"ToString", "MCore::Object">>, <<"GetHashCode", "MCore::Object">>}

\* MField::GetOffset, MField::GetValueBoxed, MCore::Object::ToString and
\* MCore::Object::GetHashCode
MissingCodeQuery(q) ==
    /\ crash = "none"
    /\ crash' = MISSING_CODE(crash)
    /\ lastQuery' = IF crash' = "none"
                    THEN Answer(q[1], q[2], FALSE, NULL, <<>>, 0, 0)
                    ELSE lastQuery
    /\ UNCHANGED <<assertionsEnabled, classVars, gatewayVars, ctorVars, memberVars,
                   excVars, bridgesExceptStub, hasCachedAttributes, memberAttributes,
                   hasCachedEvents, classEvents>>

\* MCore::Thread::Attach: empty body
ThreadAttach ==
    /\ lastQuery' = Answer("Attach", "MCore::Thread", FALSE, NULL, <<>>, 0, 0)
    /\ UNCHANGED <<baseVars, bridgesExceptStub, hasCachedAttributes, memberAttributes,
                   hasCachedEvents, classEvents>>

\* MCore::Thread::Exit: empty body
ThreadExit ==
    /\ lastQuery' = Answer("Exit", "MCore::Thread", FALSE, NULL, <<>>, 0, 0)
    /\ UNCHANGED <<baseVars, bridgesExceptStub, hasCachedAttributes, memberAttributes,
                   hasCachedEvents, classEvents>>

\* IsAttached that answers whether the thread has just been attached
ThreadIsAttached_Mut ==
    /\ lastQuery' = Answer("IsAttached", "MCore::Thread",
                           lastQuery # NoQuery /\ lastQuery.op = "Attach", NULL, <<>>, 0, 0)
    /\ UNCHANGED <<baseVars, bridgesExceptStub, hasCachedAttributes, memberAttributes,
                   hasCachedEvents, classEvents>>

\* MCore::Thread::IsAttached
ThreadIsAttached ==
    /\ lastQuery' = Answer("IsAttached", "MCore::Thread", TRUE, NULL, <<>>, 0, 0)
    /\ UNCHANGED <<baseVars, bridgesExceptStub, hasCachedAttributes, memberAttributes,
                   hasCachedEvents, classEvents>>

InitStubSpec ==
    /\ InitBase
    /\ InitBridge

NextStub ==
    \/ \E kind \in MemberKinds, withClass \in BOOLEAN : HasAttribute(kind, withClass)
    \/ \E kind \in MemberKinds : GetAttribute(kind)
    \/ \E kind \in MemberKinds : GetAttributes(kind)
    \/ GetEvents
    \/ \E add \in BOOLEAN : GetAddRemoveMethod(add)
    \/ \E q \in MissingCodeQueries : MissingCodeQuery(q)
    \/ ThreadAttach
    \/ ThreadExit
    \/ ThreadIsAttached

SpecStub == InitStubSpec /\ [][NextStub]_vars

\* C24: HasAttribute, GetAttribute and GetAttributes on fields, methods,
\* properties and events, MClass::GetEvents and an event's add and remove
\* accessors return false, null or an empty sequence in every state, issue
\* no managed call and never end the process.
C24_StubQueriesReturnDefaults ==
    /\ crash = "none"
    /\ (lastQuery # NoQuery /\ lastQuery.kind \in MemberKinds \cup {"MClass"}
            /\ lastQuery.op \notin {"GetOffset", "GetValueBoxed"}) =>
        /\ lastQuery.bool = FALSE
        /\ lastQuery.pointer = NULL
        /\ lastQuery.array = <<>>
        /\ lastQuery.calls = 0

C24_Witness ==
    /\ lastQuery # NoQuery
    /\ lastQuery.op = "GetAttributes"
    /\ lastQuery.kind = "MProperty"
    /\ hasCachedAttributes["MProperty"]
    /\ hasCachedAttributes["MEvent"]
    /\ hasCachedEvents

\* C25: MField::GetOffset, MField::GetValueBoxed, MCore::Object::ToString
\* and MCore::Object::GetHashCode hand back 0 or null and never end the
\* process.
C25_PlaceholdersReturnDefaults ==
    /\ crash = "none"
    /\ (lastQuery # NoQuery /\ <<lastQuery.op, lastQuery.kind>> \in MissingCodeQueries) =>
        /\ lastQuery.number = 0
        /\ lastQuery.pointer = NULL

C25_Witness ==
    /\ lastQuery # NoQuery
    /\ lastQuery.op = "GetHashCode"
    /\ lastQuery.kind = "MCore::Object"
    /\ crash = "none"
    /\ hasCachedAttributes["MField"]

\* the state the scripting bridge keeps, the record of the last query aside
BridgeState ==
    <<baseVars, bridgesExceptStub, hasCachedAttributes, memberAttributes,
      hasCachedEvents, classEvents>>

\* C29: a step of MCore::Thread::Attach or MCore::Thread::Exit changes no
\* bridge state and issues no managed call, and IsAttached returns true.
C29_ThreadAttachExitNoOps ==
    [][(lastQuery' # NoQuery /\ lastQuery'.kind = "MCore::Thread") =>
            /\ lastQuery'.calls = 0
            /\ lastQuery'.op = "IsAttached" => lastQuery'.bool = TRUE
            /\ (lastQuery' # lastQuery) => UNCHANGED BridgeState]_vars

C29_Witness ==
    /\ lastQuery # NoQuery
    /\ lastQuery.op = "IsAttached"
    /\ lastQuery.bool = TRUE
    /\ hasCachedEvents
    /\ hasCachedAttributes["MMethod"]

(***************************************************************************)
(* Two threads inside GetStaticMethodPointer, statement by statement.      *)
(* CachedFunctions is a plain Dictionary: nothing orders a lookup against  *)
(* an insertion another thread is making.                                  *)
(***************************************************************************)
\* another thread is inside an insertion into the dictionary
Inserting(t, position) == \E u \in Threads \ {t} : frame[u].pc = position

\* d.TryGet(key) as thread t sees it: the stored value or a miss, and either
\* of them with any stored value while another thread is inserting
TryGetOutcomes(d, key, racing) ==
    LET exact == [found |-> DictHas(d, key), value |-> DictTryGet(d, key)]
    IN  IF racing
        THEN {exact, [found |-> FALSE, value |-> NULL]}
             \cup {[found |-> TRUE, value |-> d[i][2]] : i \in DOMAIN d}
        ELSE {exact}

\* the number of GetStaticMethodPointer calls made so far
PointerCalls == Cardinality({p \in Names \X (1..MaxCalls) : p[2] <= calls[p[1]]})

PointerCall(t, methodName) ==
    /\ crash = "none"
    /\ frame[t] = Idle
    /\ calls[methodName] < MaxCalls
    /\ PointerCalls < MaxConcCalls
    /\ calls' = [calls EXCEPT ![methodName] = @ + 1]
    /\ frame' = [frame EXCEPT ![t] = [pc |-> "TryGet", methodName |-> methodName,
                                       fun |-> NULL]]
    /\ results' = [results EXCEPT ![t] = NoResult]
    /\ UNCHANGED <<processVars, classVars, CachedFunctions, lookups, resolved, fatalLogged,
                   ctorVars, memberVars, excVars, bridgesExceptConc, memberCache>>

\* if (CachedFunctions.TryGet(methodName, fun)) return fun;
PointerTryGet(t) ==
    /\ crash = "none"
    /\ frame[t].pc = "TryGet"
    /\ \E got \in TryGetOutcomes(CachedFunctions, frame[t].methodName,
                                 Inserting(t, "Adding")) :
        IF got.found
        THEN /\ frame' = [frame EXCEPT ![t] = Idle]
             /\ results' = [results EXCEPT ![t] =
                    [tag |-> "pointer", methodName |-> frame[t].methodName,
                     fun |-> got.value]]
             /\ resolved' = [resolved EXCEPT ![frame[t].methodName] = @ \cup {got.value}]
        ELSE /\ frame' = [frame EXCEPT ![t].pc = "lookup"]
             /\ UNCHANGED <<results, resolved>>
    /\ UNCHANGED <<processVars, classVars, CachedFunctions, calls, lookups, fatalLogged,
                   ctorVars, memberVars, excVars, bridgesExceptConc, memberCache>>

\* get_function_pointer(...); if (rc != 0) LOG(Fatal, ...);
PointerLookup(t) ==
    /\ crash = "none"
    /\ frame[t].pc = "lookup"
    /\ \E answer \in get_function_pointer(frame[t].methodName), exited \in BOOLEAN :
        /\ lookups' = [lookups EXCEPT ![frame[t].methodName] = @ + 1]
        /\ fatalLogged' = IF answer.rc # 0 THEN fatalLogged \cup {frame[t].methodName}
                          ELSE fatalLogged
        /\ IF answer.rc # 0 /\ exited
           THEN /\ crash' = "Fatal"
                /\ UNCHANGED frame
           ELSE /\ frame' = [frame EXCEPT ![t].pc = "Add", ![t].fun = answer.fun]
                /\ UNCHANGED crash
    /\ UNCHANGED <<assertionsEnabled, classVars, CachedFunctions, calls, resolved,
                   ctorVars, memberVars, excVars, bridgesExceptConc, results, memberCache>>

\* CachedFunctions.Add(methodName, fun): the lookup for the key and the write
\* of the bucket
PointerAdd(t) ==
    /\ crash = "none"
    /\ frame[t].pc = "Add"
    /\ IF assertionsEnabled /\ DictHas(CachedFunctions, frame[t].methodName)
       THEN /\ crash' = "ASSERT"
            /\ UNCHANGED <<CachedFunctions, frame>>
       ELSE /\ CachedFunctions' = DictAdd(CachedFunctions, frame[t].methodName,
                                           frame[t].fun)
            /\ frame' = [frame EXCEPT ![t].pc = "Adding"]
            /\ UNCHANGED crash
    /\ UNCHANGED <<assertionsEnabled, classVars, calls, lookups, resolved, fatalLogged,
                   ctorVars, memberVars, excVars, bridgesExceptConc, results, memberCache>>

\* the insertion is complete; return fun;
PointerReturn(t) ==
    /\ crash = "none"
    /\ frame[t].pc = "Adding"
    /\ frame' = [frame EXCEPT ![t] = Idle]
    /\ results' = [results EXCEPT ![t] =
            [tag |-> "pointer", methodName |-> frame[t].methodName, fun |-> frame[t].fun]]
    /\ resolved' = [resolved EXCEPT ![frame[t].methodName] = @ \cup {frame[t].fun}]
    /\ UNCHANGED <<processVars, classVars, CachedFunctions, calls, lookups, fatalLogged,
                   ctorVars, memberVars, excVars, bridgesExceptConc, memberCache>>

InitConcSpec ==
    /\ InitBase
    /\ InitBridge

NextConcPointer ==
    \/ \E t \in Threads, methodName \in Names : PointerCall(t, methodName)
    \/ \E t \in Threads : PointerTryGet(t)
    \/ \E t \in Threads : PointerLookup(t)
    \/ \E t \in Threads : PointerAdd(t)
    \/ \E t \in Threads : PointerReturn(t)

SpecConcPointer == InitConcSpec /\ [][NextConcPointer]_vars

\* C26: with two threads inside GetStaticMethodPointer, for the same or for
\* distinct names, CachedFunctions holds one entry per resolved name, no
\* insertion of a name that is present is made, and each caller receives
\* the pointer stored for its name.
C26_OneEntryPerName ==
    /\ crash # "ASSERT"
    /\ \A n \in Names : Cardinality({i \in DOMAIN CachedFunctions :
                                        CachedFunctions[i][1] = n}) <= 1
    /\ \A t \in Threads : results[t] # NoResult =>
            results[t].fun = DictTryGet(CachedFunctions, results[t].methodName)

(***************************************************************************)
(* Two threads inside MCore/GetOrCreateClass for handles that are not in   *)
(* classHandles, statement by statement. No assembly is loaded, so that    *)
(* the class is not inserted into an assembly's map.                       *)
(***************************************************************************)
ClassCall(t, typeHandle) ==
    /\ crash = "none"
    /\ frame[t] = Idle
    /\ results[t] = NoResult
    /\ frame' = [frame EXCEPT ![t] = [pc |-> "TryGetClass", typeHandle |-> typeHandle,
                                       klass |-> NULL]]
    /\ UNCHANGED <<baseVars, bridgesExceptConc, results, memberCache>>

\* if (classHandles.TryGet(typeHandle, klass)) return klass;
ClassTryGet(t) ==
    /\ crash = "none"
    /\ frame[t].pc = "TryGetClass"
    /\ \E got \in TryGetOutcomes(classHandles, frame[t].typeHandle,
                                 Inserting(t, "Constructed")) :
        IF got.found
        THEN /\ frame' = [frame EXCEPT ![t] = Idle]
             /\ results' = [results EXCEPT ![t] =
                    [tag |-> "class", typeHandle |-> frame[t].typeHandle,
                     klass |-> got.value]]
        ELSE /\ frame' = [frame EXCEPT ![t].pc = "New"]
             /\ UNCHANGED results
    /\ UNCHANGED <<baseVars, bridgesExceptConc, memberCache>>

\* the describe call and New<MClass>(...), whose constructor adds the class
\* to classHandles
ClassNew(t) ==
    /\ crash = "none"
    /\ frame[t].pc = "New"
    /\ HasRoomFor(1)
    /\ LET described == GetManagedClassFromType(frame[t].typeHandle)
           classInfo == described.classInfo
           h == MClassCtor(Heap, GetAssembly(described.assemblyHandle),
                           classInfo.typeHandle, classInfo.fullname,
                           classInfo.typeAttributes)
       IN  /\ SetHeap(h)
           /\ frame' = IF h.crash = "none"
                       THEN [frame EXCEPT ![t].pc = "Constructed", ![t].klass = nextObj]
                       ELSE frame
    /\ UNCHANGED <<assertionsEnabled, assemblyHandles, asmHandle, returned, gatewayVars,
                   ctorVars, memberVars, excVars, bridgesExceptConc, results, memberCache>>

\* the buffers are released; return klass;
ClassReturn(t) ==
    /\ crash = "none"
    /\ frame[t].pc = "Constructed"
    /\ frame' = [frame EXCEPT ![t] = Idle]
    /\ results' = [results EXCEPT ![t] =
            [tag |-> "class", typeHandle |-> frame[t].typeHandle, klass |-> frame[t].klass]]
    /\ UNCHANGED <<baseVars, bridgesExceptConc, memberCache>>

\* the caller looks at the class and forgets it
ClassForget(t) ==
    /\ crash = "none"
    /\ results[t] # NoResult
    /\ results' = [results EXCEPT ![t] = NoResult]
    /\ UNCHANGED <<baseVars, bridgesExceptConc, frame, memberCache>>

\* type handles that are their own canonical handle
CanonicalHandles == {typeHandle \in TypeHandles : CanonicalHandle(typeHandle) = typeHandle}

NextConcClass ==
    \/ \E t \in Threads, typeHandle \in CanonicalHandles : ClassCall(t, typeHandle)
    \/ \E t \in Threads : ClassTryGet(t)
    \/ \E t \in Threads : ClassNew(t)
    \/ \E t \in Threads : ClassReturn(t)
    \/ \E t \in Threads : ClassForget(t)

SpecConcClass == InitConcSpec /\ [][NextConcClass]_vars

\* C27: with two threads inside GetOrCreateClass for the same uncached
\* handle, one MClass is made for the handle and both callers receive that
\* object.
C27_OneClassPerHandleConcurrent ==
    /\ crash # "ASSERT"
    /\ \A o1, o2 \in LiveObjects : mclass[o1]._handle = mclass[o2]._handle => o1 = o2
    /\ \A t \in Threads : results[t] # NoResult =>
            /\ IsLive(results[t].klass)
            /\ mclass[results[t].klass]._handle = results[t].typeHandle
    /\ \A t, u \in Threads :
            (results[t] # NoResult /\ results[u] # NoResult
                /\ results[t].typeHandle = results[u].typeHandle)
            => results[t].klass = results[u].klass

(***************************************************************************)
(* Two threads making the first GetMethods, GetFields, GetProperties,      *)
(* GetInterfaces or GetAttributes call on one class, statement by          *)
(* statement. The five functions have one shape: test the flag, make the   *)
(* describe call, add the members one by one, set the flag.                *)
(***************************************************************************)
\* the members the managed side reports for the class, in any category
ReportedMembers == [i \in 1..MaxMembers |-> i]

\* Array::Resize(n): the first n elements, default elements after them
ArrayResize(array, n) ==
    [i \in 1..n |-> IF i <= Len(array) THEN array[i] ELSE NULL]

\* Array::Add(item) with no lock held: the item is appended; while another
\* thread is adding to the same array the two writes can land in one slot
ArrayAddOutcomes(array, item, racing) ==
    IF racing /\ array # <<>>
    THEN {Append(array, item), [array EXCEPT ![Len(array)] = item]}
    ELSE {Append(array, item)}

\* the number of describe calls made so far, over all categories
MemberDescribes ==
    Cardinality({p \in CachedCategories \X (1..(MaxConcCalls + MaxThreads)) :
                    p[2] <= memberCache[p[1]].describes})

MemberCall(t, category) ==
    /\ crash = "none"
    /\ frame[t] = Idle
    /\ results[t] = NoResult
    /\ MemberDescribes < MaxConcCalls
    /\ frame' = [frame EXCEPT ![t] = [pc |-> "check", category |-> category, i |-> 0]]
    /\ UNCHANGED <<baseVars, bridgesExceptConc, results, memberCache>>

\* if (_hasCachedMethods) return _methods;
MemberCheck(t) ==
    /\ crash = "none"
    /\ frame[t].pc = "check"
    /\ IF memberCache[frame[t].category].cached
       THEN /\ frame' = [frame EXCEPT ![t] = Idle]
            /\ results' = [results EXCEPT ![t] =
                    [tag |-> "members", category |-> frame[t].category]]
       ELSE /\ frame' = [frame EXCEPT ![t].pc = "describe"]
            /\ UNCHANGED results
    /\ UNCHANGED <<baseVars, bridgesExceptConc, memberCache>>

\* CallStaticMethod(GetClassMethodsPtr, _handle, &methods, &methodsCount);
\* GetAttributes also does _attributes.Resize(numAttributes)
MemberDescribe(t) ==
    /\ crash = "none"
    /\ frame[t].pc = "describe"
    /\ LET c == frame[t].category IN
        memberCache' = [memberCache EXCEPT
            ![c].describes = @ + 1,
            ![c].array = IF c = "attributes" THEN ArrayResize(@, Len(ReportedMembers))
                         ELSE @]
    /\ frame' = [frame EXCEPT ![t].pc = IF Len(ReportedMembers) = 0 THEN "set" ELSE "loop"]
    /\ UNCHANGED <<baseVars, bridgesExceptConc, results>>

\* one turn of the loop: New<MMethod>(...); _methods.Add(method);
MemberAdd(t) ==
    /\ crash = "none"
    /\ frame[t].pc = "loop"
    /\ LET c == frame[t].category
           racing == \E u \in Threads \ {t} : frame[u].pc = "loop" /\ frame[u].category = c
       IN  \E added \in ArrayAddOutcomes(memberCache[c].array,
                                         ReportedMembers[frame[t].i + 1], racing) :
                memberCache' = [memberCache EXCEPT ![c].array = added]
    /\ frame' = [frame EXCEPT ![t].i = @ + 1,
                              ![t].pc = IF frame[t].i + 1 = Len(ReportedMembers)
                                        THEN "set" ELSE "loop"]
    /\ UNCHANGED <<baseVars, bridgesExceptConc, results>>

\* _hasCachedMethods = true; return _methods;
MemberSetCached(t) ==
    /\ crash = "none"
    /\ frame[t].pc = "set"
    /\ memberCache' = [memberCache EXCEPT ![frame[t].category].cached = TRUE]
    /\ frame' = [frame EXCEPT ![t] = Idle]
    /\ results' = [results EXCEPT ![t] =
            [tag |-> "members", category |-> frame[t].category]]
    /\ UNCHANGED <<baseVars, bridgesExceptConc>>

\* the caller is done with the returned array
MemberForget(t) ==
    /\ crash = "none"
    /\ results[t] # NoResult
    /\ results' = [results EXCEPT ![t] = NoResult]
    /\ UNCHANGED <<baseVars, bridgesExceptConc, frame, memberCache>>

NextConcMembers ==
    \/ \E t \in Threads, category \in CachedCategories : MemberCall(t, category)
    \/ \E t \in Threads : MemberCheck(t)
    \/ \E t \in Threads : MemberDescribe(t)
    \/ \E t \in Threads : MemberAdd(t)
    \/ \E t \in Threads : MemberSetCached(t)
    \/ \E t \in Threads : MemberForget(t)

SpecConcMembers == InitConcSpec /\ [][NextConcMembers]_vars

\* the positions of a reported member in a cached array
PositionsOf(array, member) == {i \in DOMAIN array : array[i] = member}

\* C28: with two threads making the first member query on one class, the
\* population is serialized: at most one thread is populating a category,
\* the describe call runs once, and the array a caller is handed holds
\* each reported member exactly once.
C28_PopulationSerialized ==
    \A c \in CachedCategories :
        /\ memberCache[c].describes <= 1
        /\ Cardinality({t \in Threads : frame[t] # Idle /\ frame[t].category = c
                            /\ frame[t].pc \in {"describe", "loop", "set"}}) <= 1
        /\ \A t \in Threads :
                (results[t] # NoResult /\ results[t].category = c) =>
                    \A i \in DOMAIN ReportedMembers :
                        Cardinality(PositionsOf(memberCache[c].array,
                                                ReportedMembers[i])) = 1

(***************************************************************************)
(* TEST_CASE("Scripting"), SECTION("Test Class"): the statements of the    *)
(* test run against the scripting types of the test module.                *)
(***************************************************************************)
TestTypeNames == {"FlaxEngine.TestClassNative", "FlaxEngine.TestClassManaged"}

\* the strings handed to TestMethod
TestStrings == SeqsUpTo({"1", "2", "3"}, MaxStr)

\* TestClassNative::TypeInitializer and the handle of the managed test type
TypeInitializer(typeName) == IF typeName = "FlaxEngine.TestClassNative" THEN 1 ELSE 2

\* Scripting::FindScriptingType(fullname)
FindScriptingType(fullname) ==
    IF fullname \in TestTypeNames THEN TypeInitializer(fullname) ELSE NULL

Float3_One == <<1, 1, 1>>

Float3_UnitX == <<1, 0, 0>>

\* the address of the object the test instantiates
TestObjectAddress == 1

\* the managed object made for the test's object
TestManagedObject == 2

\* Scripting::NewObject(type): the native constructor of TestClassNative
\* runs for both test types; the fields have their declared initial values
NewObject(type) ==
    [class |-> IF type = 1 THEN "TestClassNative" ELSE "TestClassManaged",
     address |-> TestObjectAddress,
     SimpleField |-> 1,
     SimpleStruct |-> [Object |-> NULL, Vector |-> Float3_One]]

\* GetOrCreateManagedInstance that hands the managed object out before its
\* constructor has run
GetOrCreateManagedInstance_Mut(object) ==
    [object |-> object, managed |-> TestManagedObject]

\* ScriptingObject::GetOrCreateManagedInstance: the managed object is made
\* and its constructor runs; the constructor of TestClassManaged sets the
\* fields of the native object
GetOrCreateManagedInstance(object) ==
    [object |-> IF object.class = "TestClassManaged"
                THEN [object EXCEPT !.SimpleField = 2,
                                    !.SimpleStruct = [Object |-> object.address,
                                                      Vector |-> Float3_UnitX]]
                ELSE object,
     managed |-> TestManagedObject]

\* TestMethod that counts the terminator too
TestMethod_Mut(object, str) ==
    IF object.class = "TestClassNative" THEN Len(str) + 1 ELSE 2 * Len(str)

\* TestClassNative::TestMethod(str): the length of the string; the managed
\* override doubles it
TestMethod(object, str) ==
    IF object.class = "TestClassNative" THEN Len(str) ELSE 2 * Len(str)

\* the test runs its native part or its managed part
NativePart == testInput.typeName = "FlaxEngine.TestClassNative"

\* type = Scripting::FindScriptingType(...); CHECK(type == TypeInitializer);
\* in the managed part CHECK(type);
TestFindType ==
    /\ testLocals.pc = "FindScriptingType"
    /\ \E type \in {FindScriptingType(testInput.typeName)} :
        /\ testLocals' = [testLocals EXCEPT !.type = type, !.pc = "NewObject"]
        /\ testChecks' = Append(testChecks,
                                IF NativePart
                                THEN type = TypeInitializer(testInput.typeName)
                                ELSE type # NULL)
    /\ UNCHANGED <<baseVars, bridgesExceptTest, testInput>>

\* object = Scripting::NewObject(...); CHECK(object); CHECK(object->Is<TestClassNative>());
TestNewObject ==
    /\ testLocals.pc = "NewObject"
    /\ \E object \in {NewObject(testLocals.type)} :
        /\ testLocals' = [testLocals EXCEPT
                !.object = object,
                !.pc = IF NativePart THEN "fields" ELSE "GetOrCreateManagedInstance"]
        /\ testChecks' = testChecks \o
                <<object.class # "none",
                  object.class \in {"TestClassNative", "TestClassManaged"}>>
    /\ UNCHANGED <<baseVars, bridgesExceptTest, testInput>>

\* managed = testClass->GetOrCreateManagedInstance(); CHECK(managed);
TestCreateManaged ==
    /\ testLocals.pc = "GetOrCreateManagedInstance"
    /\ \E made \in {GetOrCreateManagedInstance(testLocals.object)} :
        /\ testLocals' = [testLocals EXCEPT !.object = made.object,
                                            !.managed = made.managed, !.pc = "fields"]
        /\ testChecks' = Append(testChecks, made.managed # NULL)
    /\ UNCHANGED <<baseVars, bridgesExceptTest, testInput>>

\* CHECK(testClass->SimpleField == 1); CHECK(SimpleStruct.Object == nullptr);
\* CHECK(SimpleStruct.Vector == Float3::One); in the managed part 2,
\* testClass and Float3::UnitX
TestReadFields ==
    /\ testLocals.pc = "fields"
    /\ testLocals' = [testLocals EXCEPT !.pc = "TestMethod"]
    /\ testChecks' = testChecks \o
            IF NativePart
            THEN <<testLocals.object.SimpleField = 1,
                   testLocals.object.SimpleStruct.Object = NULL,
                   testLocals.object.SimpleStruct.Vector = Float3_One>>
            ELSE <<testLocals.object.SimpleField = 2,
                   testLocals.object.SimpleStruct.Object = testLocals.object.address,
                   testLocals.object.SimpleStruct.Vector = Float3_UnitX>>
    /\ UNCHANGED <<baseVars, bridgesExceptTest, testInput>>

\* methodResult = testClass->TestMethod(str); CHECK(methodResult == 3);
TestCallMethod ==
    /\ testLocals.pc = "TestMethod"
    /\ \E methodResult \in {TestMethod(testLocals.object, testInput.str)} :
        /\ testLocals' = [testLocals EXCEPT !.methodResult = methodResult, !.pc = "done"]
        /\ testChecks' = Append(testChecks, methodResult = IF NativePart THEN 3 ELSE 6)
    /\ UNCHANGED <<baseVars, bridgesExceptTest, testInput>>

InitTestSpec ==
    /\ InitBase
    /\ InitExceptTest
    /\ testInput \in [typeName : TestTypeNames, str : TestStrings]
    /\ testLocals = TestStart
    /\ testChecks = <<>>

NextTest ==
    \/ TestFindType
    \/ TestNewObject
    \/ TestCreateManaged
    \/ TestReadFields
    \/ TestCallMethod

SpecTest == InitTestSpec /\ [][NextTest]_vars

\* C30: looking up "FlaxEngine.TestClassNative" yields the native type's
\* handle, the instantiated object's SimpleField is 1, its struct field
\* holds a null object and the vector (1,1,1), and TestMethod("123")
\* returns 3.
C30_NativeTestScenario ==
    (testInput.typeName = "FlaxEngine.TestClassNative" /\ testLocals.pc = "done") =>
        /\ testLocals.type = TypeInitializer("FlaxEngine.TestClassNative")
        /\ testLocals.object.SimpleField = 1
        /\ testLocals.object.SimpleStruct.Object = NULL
        /\ testLocals.object.SimpleStruct.Vector = <<1, 1, 1>>
        /\ SubSeq(testChecks, 1, 6) = <<TRUE, TRUE, TRUE, TRUE, TRUE, TRUE>>
        /\ testInput.str = <<"1", "2", "3">> =>
                testLocals.methodResult = 3 /\ testChecks[7]

C30_Witness ==
    /\ testInput = [typeName |-> "FlaxEngine.TestClassNative", str |-> <<"1", "2", "3">>]
    /\ testLocals.pc = "done"
    /\ testLocals.methodResult = 3
    /\ Len(testChecks) = 7

\* C31: for an object of "FlaxEngine.TestClassManaged",
\* GetOrCreateManagedInstance returns a non-null managed object whose
\* constructor has run: SimpleField is 2, the struct field's vector is
\* (1,0,0), its object reference is the object itself, and
\* TestMethod("123") returns 6.
C31_ManagedTestScenario ==
    (~NativePart /\ testLocals.pc \in {"fields", "TestMethod", "done"}) =>
        /\ testLocals.managed # NULL
        /\ testLocals.object.SimpleField = 2
        /\ testLocals.object.SimpleStruct.Vector = <<1, 0, 0>>
        /\ testLocals.object.SimpleStruct.Object = testLocals.object.address
        /\ testLocals.pc = "done" =>
            /\ SubSeq(testChecks, 1, 7) = <<TRUE, TRUE, TRUE, TRUE, TRUE, TRUE, TRUE>>
            /\ testInput.str = <<"1", "2", "3">> =>
                    testLocals.methodResult = 6 /\ testChecks[8]

C31_Witness ==
    /\ testInput = [typeName |-> "FlaxEngine.TestClassManaged", str |-> <<"1", "2", "3">>]
    /\ testLocals.pc = "done"
    /\ testLocals.managed # NULL
    /\ testLocals.methodResult = 6
    /\ Len(testChecks) = 8

(***************************************************************************)
(* MClass::GetAttributes on one class, one call at a time.                 *)
(***************************************************************************)
\* the attribute objects the managed side can report
AttributeObjects == {11, 12, 13}

\* the arrays GetClassAttributes (managed) can hand back
GetClassAttributesAnswers == SeqsUpTo(AttributeObjects, MaxMembers + 1)

RECURSIVE ArrayAddAll(_, _)
\* the loop of GetAttributes: _attributes.Add(attributes[i]) for each i
ArrayAddAll(array, items) ==
    IF items = <<>> THEN array
    ELSE ArrayAddAll(Append(array, Head(items)), Tail(items))

\* MClass::GetAttributes on the class's flag and array
MClassGetAttributes(cache, reported) ==
    IF cache.cached THEN cache
    ELSE [cached |-> TRUE,
          array |-> ArrayAddAll(ArrayResize(cache.array, Len(reported)), reported),
          describes |-> cache.describes + 1]

\* a GetAttributes call on the class
GetClassAttributes ==
    /\ crash = "none"
    /\ \E cache \in {MClassGetAttributes(attributesCache, managedAttributes)} :
        /\ attributesCache' = cache
        /\ attributesReturned' =
                [tag |-> "attributes", array |-> cache.array,
                 called |-> cache.describes - attributesCache.describes,
                 calls |-> IF attributesReturned = NoAttributes THEN 1 ELSE 2]
    /\ UNCHANGED <<baseVars, bridgesExceptAttr, managedAttributes>>

InitAttrSpec ==
    /\ InitBase
    /\ InitExceptAttr
    /\ managedAttributes \in GetClassAttributesAnswers
    /\ attributesCache = [cached |-> FALSE, array |-> <<>>, describes |-> 0]
    /\ attributesReturned = NoAttributes

NextAttr == GetClassAttributes

SpecAttr == InitAttrSpec /\ [][NextAttr]_vars

\* C32: after the first GetAttributes call on a class for which the managed
\* side returns n attribute objects, the cached sequence has exactly n
\* elements, the i-th being the i-th returned object, and later calls return
\* the same sequence without a further managed call.
C32_AttributesCachedAsReturned ==
    attributesReturned # NoAttributes =>
        /\ attributesCache.array = managedAttributes
        /\ attributesReturned.array = managedAttributes
        /\ attributesCache.describes = 1
        /\ attributesReturned.calls = 2 => attributesReturned.called = 0

(***************************************************************************)
(* Two threads inside MMethod::GetReturnType and GetParameterType of one   *)
(* method, statement by statement.                                         *)
(***************************************************************************)
\* the type handles the managed side reports for the method
ManagedReturnType == 31

ManagedParameterTypes(paramsCount) == [i \in 1..paramsCount |-> 40 + i]

\* what a read of a member that has not been written yet can give
UnfetchedValues == {NULL, 99}

\* the calls a thread can make: GetReturnType() and GetParameterType(paramIdx)
SignatureCalls ==
    {[op |-> "GetReturnType", paramIdx |-> 0]}
    \cup {[op |-> "GetParameterType", paramIdx |-> i] : i \in 0..(MaxMembers - 1)}

SigCall(t, call) ==
    /\ crash = "none"
    /\ sigFrame[t] = Idle
    /\ sigReturned[t] = NoResult
    /\ call.op = "GetParameterType" => call.paramIdx < signature.paramsCount
    /\ sigFrame' = [sigFrame EXCEPT ![t] = [pc |-> "check", call |-> call]]
    /\ UNCHANGED <<baseVars, bridgesExceptSig, signature, sigReturned>>

\* if (!_hasCachedSignature) CacheSignature();
SigCheck(t) ==
    /\ crash = "none"
    /\ sigFrame[t].pc = "check"
    /\ sigFrame' = [sigFrame EXCEPT ![t].pc = IF signature.cached THEN "read"
                                               ELSE "CacheSignature"]
    /\ UNCHANGED <<baseVars, bridgesExceptSig, signature, sigReturned>>

\* CacheSignature: _hasCachedSignature = true;
SigSetCached(t) ==
    /\ crash = "none"
    /\ sigFrame[t].pc = "CacheSignature"
    /\ signature' = [signature EXCEPT !.cached = TRUE]
    /\ sigFrame' = [sigFrame EXCEPT ![t].pc = "GetMethodReturnType"]
    /\ UNCHANGED <<baseVars, bridgesExceptSig, sigReturned>>

\* _returnType = CallStaticMethod(GetMethodReturnTypePtr, _handle);
\* if (_paramsCount == 0) return;
SigFetchReturnType(t) ==
    /\ crash = "none"
    /\ sigFrame[t].pc = "GetMethodReturnType"
    /\ signature' = [signature EXCEPT !.returnType = ManagedReturnType,
                                      !.returnFetched = TRUE, !.fetches = @ + 1]
    /\ sigFrame' = [sigFrame EXCEPT ![t].pc = IF signature.paramsCount = 0 THEN "read"
                                               ELSE "GetMethodParameterTypes"]
    /\ UNCHANGED <<baseVars, bridgesExceptSig, sigReturned>>

\* CallStaticMethod(GetMethodParameterTypesPtr, ...); _parameterTypes.Set(...);
SigFetchParameterTypes(t) ==
    /\ crash = "none"
    /\ sigFrame[t].pc = "GetMethodParameterTypes"
    /\ signature' = [signature EXCEPT
            !.parameterTypes = ManagedParameterTypes(signature.paramsCount)]
    /\ sigFrame' = [sigFrame EXCEPT ![t].pc = "read"]
    /\ UNCHANGED <<baseVars, bridgesExceptSig, sigReturned>>

\* the values return (MType*)_returnType; and return
\* (MType*)_parameterTypes[paramIdx]; can give
SignatureReads(call) ==
    IF call.op = "GetReturnType"
    THEN IF signature.returnFetched THEN {signature.returnType} ELSE UnfetchedValues
    ELSE IF call.paramIdx < Len(signature.parameterTypes)
         THEN {signature.parameterTypes[call.paramIdx + 1]}
         ELSE UnfetchedValues

SigRead(t) ==
    /\ crash = "none"
    /\ sigFrame[t].pc = "read"
    /\ \E type \in SignatureReads(sigFrame[t].call) :
        sigReturned' = [sigReturned EXCEPT ![t] =
                            [tag |-> "type", call |-> sigFrame[t].call, type |-> type]]
    /\ sigFrame' = [sigFrame EXCEPT ![t] = Idle]
    /\ UNCHANGED <<baseVars, bridgesExceptSig, signature>>

\* the caller is done with the type
SigForget(t) ==
    /\ crash = "none"
    /\ sigReturned[t] # NoResult
    /\ sigReturned' = [sigReturned EXCEPT ![t] = NoResult]
    /\ UNCHANGED <<baseVars, bridgesExceptSig, sigFrame, signature>>

InitSigSpec ==
    /\ InitBase
    /\ InitExceptSig
    /\ sigFrame = [t \in Threads |-> Idle]
    /\ \E paramsCount \in 0..MaxMembers : signature = NewSignature(paramsCount)
    /\ sigReturned = [t \in Threads |-> NoResult]

NextSig ==
    \/ \E t \in Threads, call \in SignatureCalls : SigCall(t, call)
    \/ \E t \in Threads : SigCheck(t)
    \/ \E t \in Threads : SigSetCached(t)
    \/ \E t \in Threads : SigFetchReturnType(t)
    \/ \E t \in Threads : SigFetchParameterTypes(t)
    \/ \E t \in Threads : SigRead(t)
    \/ \E t \in Threads : SigForget(t)

SpecSig == InitSigSpec /\ [][NextSig]_vars

\* the type the managed side holds for a call
ManagedTypeFor(call) ==
    IF call.op = "GetReturnType" THEN ManagedReturnType
    ELSE ManagedParameterTypes(signature.paramsCount)[call.paramIdx + 1]

\* C33: the return type and the parameter types of a method are fetched
\* together at most once, and with two threads calling GetReturnType and
\* GetParameterType on the method every call returns the type fetched from
\* the managed side, never a value read before the fetch.
C33_SignatureFetchedOnce ==
    /\ signature.fetches <= 1
    /\ \A t \in Threads : sigReturned[t] # NoResult =>
            sigReturned[t].type = ManagedTypeFor(sigReturned[t].call)

(***************************************************************************)
(* MException::MException, property by property: GetProperty,              *)
(* GetGetMethod and Invoke for Message, StackTrace and InnerException.     *)
(***************************************************************************)
\* what a class can have for a property: a property with a getter, a
\* property without one, or no such property
PropertyShapes == [has : {"getter", "noGetter", "missing"}, throws : BOOLEAN]

\* getter->Invoke(exception, nullptr, nullptr): the instance, the parameter
\* array and the exception slot handed to MMethod::Invoke, and whether the
\* caller looks at the slot afterwards
GetterInvocation(name, threw) ==
    [property |-> name, params |-> NULL, exception |-> NULL, slotChecked |-> FALSE,
     threw |-> threw]

\* exceptionClass->GetProperty(name)->GetGetMethod()->Invoke(...)
MarshalProperty(k) ==
    /\ crash = "none"
    /\ marshalStep = k
    /\ IF exceptionProperties[k].has = "getter"
       THEN /\ propertyGets' = Append(propertyGets,
                    GetterInvocation(MarshaledProperties[k], exceptionProperties[k].throws))
            /\ marshalStep' = k + 1
            /\ UNCHANGED crash
       ELSE /\ crash' = "NullDereference"
            /\ UNCHANGED <<propertyGets, marshalStep>>
    /\ UNCHANGED <<assertionsEnabled, classVars, gatewayVars, ctorVars, memberVars, excVars,
                   bridgesExceptMarshal, exceptionProperties>>

InitMarshalSpec ==
    /\ InitBase
    /\ InitExceptMarshal
    /\ exceptionProperties \in [1..3 -> PropertyShapes]
    /\ marshalStep = 1
    /\ propertyGets = <<>>

NextMarshal == \E k \in 1..3 : MarshalProperty(k)

SpecMarshal == InitMarshalSpec /\ [][NextMarshal]_vars

\* C34: every property-get invocation the exception marshaler issues (for
\* Message, StackTrace and InnerException) supplies an exception slot and
\* checks it before using the returned value, and a missing property or
\* getter is handled without dereferencing null.
C34_GettersCheckedAndGuarded ==
    /\ crash # "NullDereference"
    /\ \A i \in DOMAIN propertyGets :
        /\ propertyGets[i].exception # NULL
        /\ propertyGets[i].slotChecked

(***************************************************************************)
(* MCore::LoadEngine statement by statement and MCore::UnloadEngine, in    *)
(* any sequence of calls.                                                  *)
(***************************************************************************)
\* the steps of a LoadEngine call that returns false, in the order of the code
LoadEngineSteps ==
    <<"InitHostfxr", "Init", "RegisterNativeLibrary", "New<MDomain>",
      "GetRuntimeInformation", "FreeMemory">>

\* the MDomain made by the n-th successful LoadEngine call
RootDomain(n) == 100 + n

\* InitHostfxr as the process sees it: a process hosts one runtime, the
\* hosting library refuses to initialize a second one
InitHostfxrResults(backend, started) ==
    {init \in InitHostfxr(backend) : started => init.result # "success"}

\* LoadEngine that goes on after InitHostfxr has returned true
AfterInitHostfxr_Mut(failed) == "Init"

\* if (InitHostfxr(...)) return true;
AfterInitHostfxr(failed) == IF failed THEN "return" ELSE "Init"

\* UnloadEngine without its test of MRootDomain
UnloadEngineReturnsEarly_Mut(root) == FALSE

\* if (!MRootDomain) return;
UnloadEngineReturnsEarly(root) == root = NULL

LoadEngineCall ==
    /\ crash = "none"
    /\ enginePc = "idle"
    /\ engineCounts.loads < MaxLoads
    /\ engineCounts' = [engineCounts EXCEPT !.loads = @ + 1]
    /\ enginePc' = "FileExists"
    /\ engineCalls' = <<>>
    /\ engineReturn' = "none"
    /\ UNCHANGED <<baseVars, bridgesExceptEngine, engineBackend, engineRootDomain, MDomains,
                   runtimeStarted>>

\* the two FileExists tests: LOG(Fatal, ...) for a missing file ends the
\* process or returns
LoadEngineFileExists ==
    /\ crash = "none"
    /\ enginePc = "FileExists"
    /\ \E missing \in BOOLEAN, exited \in BOOLEAN :
        IF missing /\ exited
        THEN crash' = "Fatal" /\ UNCHANGED enginePc
        ELSE enginePc' = "InitHostfxr" /\ UNCHANGED crash
    /\ UNCHANGED <<assertionsEnabled, classVars, gatewayVars, ctorVars, memberVars, excVars,
                   bridgesExceptEngine, engineBackend, engineCalls, engineRootDomain,
                   MDomains, engineCounts, engineReturn, runtimeStarted>>

\* if (InitHostfxr(csharpRuntimeConfigPath, csharpLibraryPath)) return true;
LoadEngineInitHostfxr ==
    /\ crash = "none"
    /\ enginePc = "InitHostfxr"
    /\ \E init \in InitHostfxrResults(engineBackend, runtimeStarted) :
        /\ crash' = init.crash
        /\ IF init.crash # "none"
           THEN UNCHANGED <<enginePc, engineCalls, engineReturn, runtimeStarted>>
           ELSE \E next \in {AfterInitHostfxr(init.result # "success")} :
                /\ enginePc' = IF next = "return" THEN "idle" ELSE next
                /\ engineReturn' = IF next = "return" THEN "LoadEngine:true" ELSE "none"
                /\ engineCalls' = IF init.result = "success"
                                  THEN Append(engineCalls, "InitHostfxr") ELSE engineCalls
                /\ runtimeStarted' = (runtimeStarted \/ init.result = "success")
    /\ UNCHANGED <<assertionsEnabled, classVars, gatewayVars, ctorVars, memberVars, excVars,
                   bridgesExceptEngine, engineBackend, engineRootDomain, MDomains,
                   engineCounts>>

\* CallStaticMethodByName<void>(TEXT("Init")); RegisterNativeLibrary(...);
\* CallStaticMethodByName<char*>(TEXT("GetRuntimeInformation")) with the
\* release of its buffer and return false
LoadEngineGateway(name) ==
    /\ crash = "none"
    /\ enginePc = name
    /\ \E call \in CallStaticMethodsByName(engineBackend, <<name>>) :
        /\ crash' = call.crash
        /\ IF call.crash # "none"
           THEN UNCHANGED <<enginePc, engineCalls, engineReturn, engineCounts>>
           ELSE IF name = "GetRuntimeInformation"
           THEN /\ engineCalls' = engineCalls \o <<name, "FreeMemory">>
                /\ enginePc' = "idle"
                /\ engineReturn' = "LoadEngine:false"
                /\ engineCounts' = [engineCounts EXCEPT !.succeeded = @ + 1]
           ELSE /\ engineCalls' = Append(engineCalls, name)
                /\ enginePc' = IF name = "Init" THEN "RegisterNativeLibrary"
                               ELSE "New<MDomain>"
                /\ UNCHANGED <<engineReturn, engineCounts>>
    /\ UNCHANGED <<assertionsEnabled, classVars, gatewayVars, ctorVars, memberVars, excVars,
                   bridgesExceptEngine, engineBackend, engineRootDomain, MDomains,
                   runtimeStarted>>

\* MRootDomain = New<MDomain>("Root"); MDomains.Add(MRootDomain);
LoadEngineRootDomain ==
    /\ crash = "none"
    /\ enginePc = "New<MDomain>"
    /\ engineRootDomain' = RootDomain(engineCounts.succeeded + 1)
    /\ MDomains' = Append(MDomains, engineRootDomain')
    /\ engineCalls' = Append(engineCalls, "New<MDomain>")
    /\ enginePc' = "GetRuntimeInformation"
    /\ UNCHANGED <<baseVars, bridgesExceptEngine, engineBackend, engineCounts, engineReturn,
                   runtimeStarted>>

\* MCore::UnloadEngine
EngineUnload ==
    /\ crash = "none"
    /\ enginePc = "idle"
    /\ IF UnloadEngineReturnsEarly(engineRootDomain)
       THEN /\ engineReturn' = "UnloadEngine:early"
            /\ UNCHANGED <<crash, engineRootDomain, MDomains, engineCounts>>
       ELSE \E call \in CallStaticMethodsByName(engineBackend, <<"Exit">>) :
            /\ crash' = call.crash
            /\ IF call.crash # "none"
               THEN /\ engineCounts' = [engineCounts EXCEPT !.exits = @ + 1]
                    /\ UNCHANGED <<engineRootDomain, MDomains, engineReturn>>
               ELSE /\ engineCounts' = [engineCounts EXCEPT !.exits = @ + 1,
                                                            !.shutdowns = @ + 1]
                    /\ MDomains' = <<>>
                    /\ engineRootDomain' = NULL
                    /\ engineReturn' = "UnloadEngine"
    /\ UNCHANGED <<assertionsEnabled, classVars, gatewayVars, ctorVars, memberVars, excVars,
                   bridgesExceptEngine, engineBackend, enginePc, engineCalls, runtimeStarted>>

InitEngineSpec ==
    /\ InitBase
    /\ InitExceptEngine
    /\ engineBackend \in HostBackends
    /\ enginePc = "idle"
    /\ engineCalls = <<>>
    /\ engineRootDomain = NULL
    /\ MDomains = <<>>
    /\ engineCounts = [loads |-> 0, succeeded |-> 0, exits |-> 0, shutdowns |-> 0]
    /\ engineReturn = "none"
    /\ runtimeStarted = FALSE

NextEngine ==
    \/ LoadEngineCall
    \/ LoadEngineFileExists
    \/ LoadEngineInitHostfxr
    \/ \E name \in {"Init", "RegisterNativeLibrary", "GetRuntimeInformation"} :
            LoadEngineGateway(name)
    \/ LoadEngineRootDomain
    \/ EngineUnload

SpecEngine == InitEngineSpec /\ [][NextEngine]_vars

C40_UnloadEngineIdempotent ==
    /\ engineCounts.exits <= engineCounts.succeeded
    /\ engineCounts.shutdowns <= engineCounts.exits
    /\ engineReturn \in {"UnloadEngine", "UnloadEngine:early"} =>
            /\ engineRootDomain = NULL
            /\ MDomains = <<>>

C40_Witness ==
    /\ engineReturn = "UnloadEngine:early"
    /\ engineCounts.succeeded = 1
    /\ engineCounts.exits = 1
    /\ engineRootDomain = NULL

(***************************************************************************)
(* The class queries: GetClass, GetOrCreateClass, MClass::GetBaseClass,    *)
(* MClass::GetElementClass and MClass::IsInstanceOfType.                   *)
(***************************************************************************)
\* the managed objects of the queries: one per type, NULL is no object
ManagedObjectOf(t) == 200 + t

QueriedObjects == {ManagedObjectOf(t) : t \in 1..ConstructedType}

\* GetObjectType (managed): the handle of the object's runtime type
ObjectTypeOf(object) == object - 200

\* GetClassParent (managed): the base type, a null handle for the root type
GetClassParent(handle) ==
    IF CanonicalHandle(handle) = 1 THEN NULL ELSE CanonicalHandle(handle) \div 2

\* GetElementClass (managed): the element type of the constructed type, a
\* null handle for a type that has no element type
GetElementClassHandle(handle) == IF handle = ConstructedType THEN 1 ELSE NULL

\* TypeIsSubclassOf (managed): the type itself or one of its base types
RECURSIVE TypeIsSubclassOf(_, _)
TypeIsSubclassOf(type, otherType) ==
    \/ CanonicalHandle(type) = CanonicalHandle(otherType)
    \/ /\ GetClassParent(type) # NULL
       /\ TypeIsSubclassOf(GetClassParent(type), otherType)

\* the managed entry points a GetOrCreateClass(typeHandle) call goes through
GetOrCreateClassManagedCalls(h, typeHandle) ==
    IF typeHandle = NULL \/ DictHas(h.classHandles, typeHandle) THEN <<>>
    ELSE <<"GetManagedClassFromType">>
         \o (IF AllocatedBy(typeHandle) > 1 THEN <<"GetManagedClasses">> ELSE <<>>)
         \o (IF typeHandle # GetManagedClassFromType(typeHandle).classInfo.typeHandle
             THEN <<"GetManagedClassFromType">> ELSE <<>>)

SameRegistry(h1, h2) ==
    /\ h1.classHandles = h2.classHandles
    /\ h1.asmClasses = h2.asmClasses
    /\ h1.mclass = h2.mclass

\* MClass* klass = nullptr; classHandles.TryGet(typeHandle, klass); return nullptr;
GetClass(handles, typeHandle) ==
    LET klass == DictTryGet(handles, typeHandle) IN NULL

\* MClass::IsSubClassOf(klass, false) of the class with handle _handle; klassHandle
\* is klass->_handle, NULL for a null klass
IsSubClassOf(_handle, klassHandle) ==
    klassHandle # NULL /\ TypeIsSubclassOf(_handle, klassHandle)

\* return IsSubClassOf(objectClass, false);
IsInstanceOfTypeTest(_handle, objectClassHandle) == IsSubClassOf(_handle, objectClassHandle)

\* a GetOrCreateClass(typeHandle) call made by self after the managed entry
\* points of before, leaving its result in typeQuery
GetOrCreateClassFor(op, self, typeHandle, object, before) ==
    /\ HasRoomFor(AllocatedBy(typeHandle))
    /\ \E r \in {GetOrCreateClassOp(Heap, typeHandle)} :
        /\ SetHeap(r.heap)
        /\ returned' = IF r.klass # NULL /\ typeHandle # NULL
                       THEN [returned EXCEPT ![typeHandle] = @ \cup {r.klass}]
                       ELSE returned
        /\ typeQuery' =
            [op |-> op, self |-> self, handle |-> typeHandle, object |-> object,
             managed |-> before \o GetOrCreateClassManagedCalls(Heap, typeHandle),
             result |-> r.klass,
             answer |-> FALSE,
             registryUnchanged |-> SameRegistry(Heap, r.heap)]

\* GetOrCreateClass(typeHandle)
GetOrCreateClassCall(typeHandle) ==
    /\ crash = "none"
    /\ GetOrCreateClassFor("GetOrCreateClass", NULL, typeHandle, NULL, <<>>)
    /\ UNCHANGED <<assertionsEnabled, assemblyHandles, asmHandle, gatewayVars, ctorVars,
                   memberVars, excVars, bridgesExceptQuery>>

\* GetClass(typeHandle)
GetClassCall(typeHandle) ==
    /\ crash = "none"
    /\ typeQuery' = [NoTypeQuery EXCEPT !.op = "GetClass", !.handle = typeHandle,
                                    !.result = GetClass(classHandles, typeHandle)]
    /\ UNCHANGED <<baseVars, bridgesExceptQuery>>

\* MClass::GetBaseClass of class object o
GetBaseClass(o) ==
    /\ crash = "none"
    /\ IsLive(o)
    /\ GetOrCreateClassFor("GetBaseClass", o, GetClassParent(mclass[o]._handle), NULL,
                           <<"GetClassParent">>)
    /\ UNCHANGED <<assertionsEnabled, assemblyHandles, asmHandle, gatewayVars, ctorVars,
                   memberVars, excVars, bridgesExceptQuery>>

\* MClass::GetElementClass of class object o
GetElementClass(o) ==
    /\ crash = "none"
    /\ IsLive(o)
    /\ GetOrCreateClassFor("GetElementClass", o, GetElementClassHandle(mclass[o]._handle),
                           NULL, <<"GetElementClass">>)
    /\ UNCHANGED <<assertionsEnabled, assemblyHandles, asmHandle, gatewayVars, ctorVars,
                   memberVars, excVars, bridgesExceptQuery>>

\* MClass::IsInstanceOfType(object) of class object o
IsInstanceOfType(o, object) ==
    /\ crash = "none"
    /\ IsLive(o)
    /\ IF object = NULL
       THEN /\ typeQuery' = [NoTypeQuery EXCEPT !.op = "IsInstanceOfType", !.self = o]
            /\ UNCHANGED classVars
            /\ UNCHANGED crash
       ELSE /\ HasRoomFor(AllocatedBy(ObjectTypeOf(object)))
            /\ \E r \in {GetOrCreateClassOp(Heap, ObjectTypeOf(object))} :
                /\ SetHeap(r.heap)
                /\ returned' = IF r.klass # NULL
                               THEN [returned EXCEPT ![ObjectTypeOf(object)] = @ \cup {r.klass}]
                               ELSE returned
                /\ typeQuery' =
                    [op |-> "IsInstanceOfType", self |-> o, handle |-> ObjectTypeOf(object),
                     object |-> object,
                     managed |-> <<"GetObjectType">>
                        \o GetOrCreateClassManagedCalls(Heap, ObjectTypeOf(object))
                        \o (IF r.klass # NULL THEN <<"TypeIsSubclassOf">> ELSE <<>>),
                     result |-> r.klass,
                     answer |-> IsInstanceOfTypeTest(mclass[o]._handle,
                                    IF r.klass = NULL THEN NULL
                                    ELSE r.heap.mclass[r.klass]._handle),
                     registryUnchanged |-> SameRegistry(Heap, r.heap)]
            /\ UNCHANGED <<assemblyHandles, asmHandle>>
    /\ UNCHANGED <<assertionsEnabled, gatewayVars, ctorVars, memberVars, excVars,
                   bridgesExceptQuery>>

InitQuerySpec ==
    /\ InitBase
    /\ InitExceptQuery
    /\ typeQuery = NoTypeQuery

NextQuery ==
    \/ \E typeHandle \in TypeHandles \cup {NULL} : GetOrCreateClassCall(typeHandle)
    \/ \E typeHandle \in TypeHandles \cup {NULL} : GetClassCall(typeHandle)
    \/ \E o \in Objects : GetBaseClass(o)
    \/ \E o \in Objects : GetElementClass(o)
    \/ \E o \in Objects, object \in QueriedObjects \cup {NULL} : IsInstanceOfType(o, object)

SpecQuery == InitQuerySpec /\ [][NextQuery]_vars

\* C37: MClass::IsInstanceOfType(object) of class C is false for a null
\* object, and for any other object true exactly when the object's runtime
\* class is C or a subclass of C.
C37_IsInstanceOfType ==
    (typeQuery.op = "IsInstanceOfType" /\ crash = "none") =>
        typeQuery.answer =
            (/\ typeQuery.object # NULL
             /\ TypeIsSubclassOf(ObjectTypeOf(typeQuery.object),
                                 mclass[typeQuery.self]._handle))

\* C38: GetClass(H) only looks up: it returns the wrapper registered for H,
\* null only when there is none, creates no class and calls nothing on the
\* managed side.
C38_GetClassLooksUp ==
    typeQuery.op = "GetClass" =>
        /\ typeQuery.result = DictTryGet(classHandles, typeQuery.handle)
        /\ typeQuery.managed = <<>>
        /\ typeQuery.registryUnchanged

\* C39: GetOrCreateClass of a null handle returns null, calls nothing on
\* the managed side and leaves the identity map and the assemblies' class
\* maps as they were; so GetBaseClass and GetElementClass return null when
\* the managed side reports a null handle, after their one query.
C39_NullHandleGivesNull ==
    (typeQuery.op \in {"GetOrCreateClass", "GetBaseClass", "GetElementClass"}
        /\ typeQuery.handle = NULL) =>
        /\ typeQuery.result = NULL
        /\ typeQuery.registryUnchanged
        /\ typeQuery.managed = CASE typeQuery.op = "GetBaseClass" -> <<"GetClassParent">>
                                 [] typeQuery.op = "GetElementClass" -> <<"GetElementClass">>
                                 [] OTHER -> <<>>

C39_Witness ==
    /\ typeQuery.op = "GetBaseClass"
    /\ typeQuery.handle = NULL
    /\ typeQuery.result = NULL
    /\ classHandles # <<>>
    /\ crash = "none"

\* C36: InitHostfxr of the hostfxr host never calls through an export that
\* GetProcAddress did not find: every hosting function it invokes is
\* non-null at the call, or it returns failure before the call.
C36_NoCallThroughMissingExport ==
    hostBackend = "CoreCLR" => crash # "NullDereference"

====
